---- MODULE Spec2Model ----
(***************************************************************************)
(* Translation proxy (src/setup.sh, the embedded server.js) and its        *)
(* browser-side client (src/browser-extension/src/background/              *)
(* translation.js).                                                        *)
(*                                                                         *)
(* The specifications of the module:                                       *)
(*   Spec                the proxy: cache, /api/translate,                 *)
(*                       /api/translate/batch, DELETE /api/cache, with the *)
(*                       model runtime as environment                      *)
(*   SeqSpec             the proxy serving one request at a time, with     *)
(*                       requests at the limits of the validation          *)
(*   LoadSpec            the proxy serving a batch of two groups together  *)
(*                       with other requests                               *)
(*   FaultSpec           the proxy with a cache whose get and set throw    *)
(*   CollisionSpec       the proxy with texts that agree on the part of    *)
(*                       the text the cache key holds                      *)
(*   CrossSpec           the proxy with a runtime whose wording tells      *)
(*                       /api/translate and the batch items apart          *)
(*   ItemSpec            the proxy with batches of blank, empty and        *)
(*                       over-long items                                   *)
(*   ClientSpec          LocalAITranslator.translateText's retry loop      *)
(*   SplitTranslateSpec  translateText on texts of more than 10,000        *)
(*                       characters (splitAndTranslate)                    *)
(*   TermSpec            translateText on texts of any length, with fair   *)
(*                       fetch outcomes and timers                         *)
(*   ClientBatchSpec     LocalAITranslator.batchTranslate and              *)
(*                       translateWebPage                                  *)
(*   SplitSpec           LocalAITranslator.splitText as a function of its  *)
(*                       inputs                                            *)
(*   ShouldSpec          LocalAITranslator.shouldTranslate as a function   *)
(*                       of its input                                      *)
(*                                                                         *)
(* A text is kept run-length encoded: a sequence of runs [ch, n], n >= 1,  *)
(* so that texts of 10,000 and 10,001 characters are ordinary values.      *)
(* splitText works on plain sequences of one-character strings.            *)
(***************************************************************************)
EXTENDS Integers, Sequences, FiniteSets, TLC

VARIABLES
    cache,      \* the NodeCache instance: cache key -> stored result
    reqs,       \* the HTTP requests received so far, each with its handler's position
    cl,         \* the client's running call (translateText, batchTranslate, translateWebPage)
    sp          \* a call of splitText or of shouldTranslate: its inputs and its output

vars == <<cache, reqs, cl, sp>>

----------------------------------------------------------------------------
(* Bounds of the model *)

\* HTTP requests received in one behaviour
MaxReq == 2
\* DELETE /api/cache requests received in one behaviour
MaxClear == 1
\* length of the texts given to splitText
MaxLen == 5
\* largest maxLength given to splitText
MaxSplit == 3
\* length of the texts given to shouldTranslate
MaxShould == 6
\* text nodes of a document
MaxNodes == 3

----------------------------------------------------------------------------
(* Program constants *)

\* text.length > 10000 is rejected
MaxTextLen == 10000
\* texts.length > 50 is rejected
MaxBatch == 50
\* const batchSize = 5
batchSize == 5
\* .toString('base64').substring(0, 50)
Base64PrefixLen == 50
\* this.retryCount = 3
retryCount == 3
\* this.delay(1000 * attempt)
BackoffUnit == 1000
\* this.splitText(text, 5000)
SegmentLen == 5000
\* this.delay(500)
SegmentPause == 500
\* texts.length > 50 (the client's batchTranslate)
ClientMaxBatch == 50

----------------------------------------------------------------------------
(* Texts *)

Whitespace == {" ", "\n"}

Rep(c, n) == <<[ch |-> c, n |-> n]>>

RECURSIVE TextLen(_)
\* String.prototype.length of a run-length encoded text
TextLen(t) == IF t = <<>> THEN 0 ELSE Head(t).n + TextLen(Tail(t))

\* text.trim().length === 0
TrimIsEmpty(t) == \A i \in 1..Len(t) : t[i].ch \in Whitespace

RECURSIVE TextPrefix(_, _)
\* the first k characters of a text, one element per character
TextPrefix(t, k) ==
    IF k = 0 \/ t = <<>> THEN <<>>
    ELSE IF Head(t).n <= k
         THEN [j \in 1..Head(t).n |-> Head(t).ch] \o TextPrefix(Tail(t), k - Head(t).n)
         ELSE [j \in 1..k |-> Head(t).ch]

\* the upper four bits of a character's (single-byte) code
HighNibble(c) ==
    CASE c = "a" -> 6
      [] c = "b" -> 6
      [] c = "q" -> 7
      [] c = " " -> 2
      [] c = "\n" -> 0

\* the encoding not truncated: the whole text enters the key
Base64Whole(t) == [bytes |-> TextPrefix(t, TextLen(t)), nibble |-> 0]

\* Buffer.from(text).toString('base64').substring(0, 50): base64 is injective on
\* bit strings, and 50 base64 characters carry 300 bits: 37 whole bytes and
\* the upper four bits of byte 38 (zero padding when the text ends before it).
Base64Prefix(t) ==
    LET whole == (Base64PrefixLen * 6) \div 8
        p     == TextPrefix(t, whole + 1)
    IN  [bytes |-> SubSeq(p, 1, IF Len(p) < whole THEN Len(p) ELSE whole),
         nibble |-> IF Len(p) > whole THEN HighNibble(p[whole + 1]) ELSE 0]

\* `${model}_${source_lang}_${target_lang}_${...}`
CacheKey(model, sourceLang, targetLang, text) ==
    <<model, sourceLang, targetLang, Base64Prefix(text)>>

----------------------------------------------------------------------------
(* The model runtime's answer and its cleaning (translateWithOllama) *)

\* getTranslationPrompt: the template of the target language, zh-tw's when the
\* language has none, with the text embedded verbatim
TranslationPrompt(text, targetLang) ==
    [template |-> IF targetLang \in {"zh-tw", "zh-cn", "en"} THEN targetLang ELSE "zh-tw",
     text |-> text]

\* The completion is a sequence of tokens: a label with its colon, a
\* whitespace character, or translated text (which names the prompt it
\* translates and which of the runtime's wordings it is).
LabelTok(name) == [t |-> "label", v |-> name]
WsTok == [t |-> "ws", v |-> " "]
TrTok(prompt, wording) == [t |-> "tr", v |-> [of |-> prompt, wording |-> wording]]

\* The labels the cleaning strips
LabelResult == "FanYiJieGuo"
LabelYiWen == "YiWen"
LabelFanYi == "FanYi"

RECURSIVE DropLeadingWs(_)
DropLeadingWs(s) ==
    IF s # <<>> /\ Head(s).t = "ws" THEN DropLeadingWs(Tail(s)) ELSE s

RECURSIVE DropTrailingWs(_)
DropTrailingWs(s) ==
    IF s # <<>> /\ s[Len(s)].t = "ws"
    THEN DropTrailingWs(SubSeq(s, 1, Len(s) - 1)) ELSE s

\* .replace(/^label[：:]\s*/i, '')
StripLabel(s, label) ==
    IF s # <<>> /\ Head(s).t = "label" /\ Head(s).v = label
    THEN DropLeadingWs(Tail(s)) ELSE s

\* the completion returned as the runtime gave it
CleanTranslationSkipped(raw) == raw

\* the three replaces, in the code's order, then .trim()
CleanTranslation(raw) ==
    DropTrailingWs(DropLeadingWs(
        StripLabel(StripLabel(StripLabel(raw, LabelResult), LabelYiWen), LabelFanYi)))

\* The wordings the runtime may give one prompt, and those it gives in SeqSpec
Wordings == {"labelled", "plain"}
LimitWordings == {"relabelled"}

\* response.data.response for a prompt
Completion(prompt, wording) ==
    CASE wording = "labelled" -> <<LabelTok(LabelResult), WsTok, TrTok(prompt, wording)>>
      [] wording = "plain" -> <<TrTok(prompt, wording), WsTok>>
      [] wording = "relabelled" ->
            <<LabelTok(LabelYiWen), LabelTok(LabelFanYi), WsTok, TrTok(prompt, wording), WsTok>>

\* translateWithOllama's return value on a completion
OllamaResult(raw, model) ==
    [success |-> TRUE, translation |-> CleanTranslation(raw), model |-> model]

\* the message of the Error translateWithOllama throws
OllamaError == "translation failed: runtime error"

----------------------------------------------------------------------------
(* The cache (node-cache) *)

CacheHas(c, key) == key \in DOMAIN c

CacheGet(c, key) == c[key]

\* the write that keeps an entry the key already has
CacheSetIfAbsent(c, key, value) ==
    IF key \in DOMAIN c THEN c ELSE [k \in DOMAIN c \cup {key} |-> IF k = key THEN value ELSE c[k]]

\* cache.set(cacheKey, result)
CacheSet(c, key, value) ==
    [k \in DOMAIN c \cup {key} |-> IF k = key THEN value ELSE c[k]]

\* the flush that removes nothing
FlushAllKeepsEntries(c) == c

\* cache.flushAll()
FlushAll(c) == [k \in {} |-> {}]

----------------------------------------------------------------------------
(* Request bodies *)

DefaultSource == "auto"
DefaultTarget == "zh-tw"
DefaultModel == "qwen2:7b-instruct"

\* const { f = default } = req.body
Field(b, f, default) == IF f \in DOMAIN b THEN b[f] ELSE default

Hello == Rep("a", 5)
World == Rep("b", 5)

\* bodies sent to POST /api/translate
TranslateBodies ==
    { [text |-> Hello],
      [text |-> Hello, target_lang |-> "en"],
      [text |-> <<>>] }

\* bodies at the limits of the validation
LimitTranslateBodies ==
    { [target_lang |-> "zh-tw"],
      [text |-> <<>>],
      [text |-> Rep(" ", 3)],
      [text |-> Rep("a", 1) \o Rep(" ", 2)],
      [text |-> Rep("a", MaxTextLen)],
      [text |-> Rep("a", MaxTextLen + 1)],
      [text |-> Rep(" ", MaxTextLen + 1)] }

\* !text || text.trim().length === 0
TextIsEmpty(b) ==
    \/ "text" \notin DOMAIN b
    \/ b.text = <<>>
    \/ TrimIsEmpty(b.text)

\* the limit compared with >= : a text of exactly 10000 characters rejected
TextTooLongOffByOne(b) == TextLen(b.text) >= MaxTextLen

\* text.length > 10000
TextTooLong(b) == TextLen(b.text) > MaxTextLen

RequestKey(b, text) ==
    CacheKey(Field(b, "model", DefaultModel), Field(b, "source_lang", DefaultSource),
             Field(b, "target_lang", DefaultTarget), text)

----------------------------------------------------------------------------
(* POST /api/translate *)

\* no response sent yet
NoResponse == [status |-> 0]

BadRequest(msg) == [status |-> 400, success |-> FALSE, error |-> msg]

ServerError(msg) == [status |-> 500, success |-> FALSE, error |-> msg]

\* a hit answered without the from_cache tag set
HitResponseUntagged(cached) ==
    [status |-> 200, from_cache |-> FALSE] @@ cached

\* res.json({ ...cached, from_cache: true })
HitResponse(cached) ==
    [status |-> 200, from_cache |-> TRUE] @@ cached

\* res.json({ ...result, from_cache: false })
MissResponse(result) ==
    [status |-> 200, from_cache |-> FALSE] @@ result

\* The handler up to its first await: validation, the cache lookup and, on a
\* miss, the call of translateWithOllama (axios.post is sent).
TranslateStart(b, c) ==
    IF TextIsEmpty(b)
    THEN [kind |-> "single", body |-> b, raw |-> <<>>, pc |-> "done", calls |-> 0,
          lookups |-> 0, sets |-> 0, resp |-> BadRequest("text must not be empty")]
    ELSE IF TextTooLong(b)
    THEN [kind |-> "single", body |-> b, raw |-> <<>>, pc |-> "done", calls |-> 0,
          lookups |-> 0, sets |-> 0, resp |-> BadRequest("text too long")]
    ELSE IF CacheHas(c, RequestKey(b, b.text))
    THEN [kind |-> "single", body |-> b, raw |-> <<>>, pc |-> "done", calls |-> 0,
          lookups |-> 1, sets |-> 0, resp |-> HitResponse(CacheGet(c, RequestKey(b, b.text)))]
    ELSE [kind |-> "single", body |-> b, raw |-> <<>>, pc |-> "await", calls |-> 1,
          lookups |-> 1, sets |-> 0, resp |-> NoResponse]

\* the DELETE /api/cache requests among those received
Clears == Cardinality({id \in DOMAIN reqs : reqs[id].kind = "clear"})

\* A request that has been answered is remembered, with its response (and,
\* for a DELETE, the keys it removed), until the server's next step.
Past == [kind |-> "past", pc |-> "done"]

Forget(rs) ==
    [id \in DOMAIN rs |->
        IF rs[id].kind = "clear" THEN [rs[id] EXCEPT !.had = {}]
        ELSE IF rs[id].pc = "done" THEN Past
        ELSE rs[id]]

TranslateReceive(b) ==
    /\ Len(reqs) - Clears < MaxReq
    /\ reqs' = Append(Forget(reqs), TranslateStart(b, cache))
    /\ UNCHANGED <<cache, cl, sp>>

\* The runtime answers the request's invocation with a completion: the rest
\* of translateWithOllama, cache.set, res.json.
TranslateRuntimeOk(id, wording) ==
    /\ reqs[id].kind = "single" /\ reqs[id].pc = "await"
    /\ LET b      == reqs[id].body
           raw    == Completion(TranslationPrompt(b.text, Field(b, "target_lang", DefaultTarget)),
                                wording)
           result == OllamaResult(raw, Field(b, "model", DefaultModel))
       IN  /\ cache' = CacheSet(cache, RequestKey(b, b.text), result)
           /\ reqs' = [Forget(reqs) EXCEPT ![id].pc = "done", ![id].sets = @ + 1,
                                    ![id].raw = raw, ![id].resp = MissResponse(result)]
    /\ UNCHANGED <<cl, sp>>

\* the failure answered and also stored in the cache
TranslateRuntimeFailCached(id) ==
    /\ reqs[id].kind = "single" /\ reqs[id].pc = "await"
    /\ reqs' = [Forget(reqs) EXCEPT ![id].pc = "done", ![id].resp = ServerError(OllamaError)]
    /\ cache' = CacheSet(cache, RequestKey(reqs[id].body, reqs[id].body.text),
                         [success |-> FALSE, error |-> OllamaError])
    /\ UNCHANGED <<cl, sp>>

\* The invocation times out or fails: translateWithOllama throws, the
\* handler's catch answers 500.
TranslateRuntimeFail(id) ==
    /\ reqs[id].kind = "single" /\ reqs[id].pc = "await"
    /\ reqs' = [Forget(reqs) EXCEPT ![id].pc = "done", ![id].resp = ServerError(OllamaError)]
    /\ UNCHANGED <<cache, cl, sp>>

----------------------------------------------------------------------------
(* POST /api/translate/batch and batchTranslate *)

\* a JSON array with these elements
Arr(items) == [array |-> TRUE, items |-> items]

\* a JSON value that is no array (a string, an object, a number)
NotArray == [array |-> FALSE, items |-> <<>>]

\* bodies sent to POST /api/translate/batch: two texts with the same key, and
\* an empty array
BatchBodies ==
    { [texts |-> Arr(<<Hello, Hello>>)],
      [texts |-> Arr(<<>>)] }

\* bodies at the limits of the validation
LimitBatchBodies ==
    { [target_lang |-> "zh-tw"],
      [texts |-> NotArray],
      [texts |-> Arr(<<>>)],
      [texts |-> Arr([j \in 1..MaxBatch |-> Hello])],
      [texts |-> Arr([j \in 1..(MaxBatch + 1) |-> Hello])],
      [texts |-> Arr([j \in 1..(batchSize + 1) |-> IF j = 2 THEN World ELSE Hello])] }

\* !Array.isArray(texts) || texts.length === 0
TextsIsEmpty(b) ==
    \/ "texts" \notin DOMAIN b
    \/ ~b.texts.array
    \/ Len(b.texts.items) = 0

\* the limit compared with >= : an array of exactly 50 texts rejected
TextsTooManyOffByOne(b) == Len(b.texts.items) >= MaxBatch

\* texts.length > 50
TextsTooMany(b) == Len(b.texts.items) > MaxBatch

\* the texts not cut into groups
GroupLenWhole(n, i) == n - i

\* texts.slice(i, i + batchSize).length
GroupLen(n, i) == IF i + batchSize < n THEN batchSize ELSE n - i

\* return { index: i + index, ...cached }
ItemHit(idx, cached) == cached @@ [index |-> idx]

\* return { index: i + index, ...result }
ItemOk(idx, result) == result @@ [index |-> idx]

\* the catch without the fallback to the original text
ItemFailedNoFallback(idx, text, msg) ==
    [index |-> idx, success |-> FALSE, error |-> msg]

\* the map callback's catch
ItemFailed(idx, text, msg) ==
    [index |-> idx, success |-> FALSE, error |-> msg, translation |-> text]

\* the callbacks without the cache lookup: every item is invoked
GroupStartNoLookup(b, c, i) ==
    [k \in 1..GroupLen(Len(b.texts.items), i) |-> [st |-> "inflight", res |-> NoResponse]]

\* batch.map(async (text, index) => ...) up to each callback's first await:
\* every item of the group looks the cache up in the same tick; a miss
\* calls translateWithOllama (axios.post is sent).
GroupStart(b, c, i) ==
    [k \in 1..GroupLen(Len(b.texts.items), i) |->
        LET text == b.texts.items[i + k]
            key  == RequestKey(b, text)
        IN  IF CacheHas(c, key)
            THEN [st |-> "hit", res |-> ItemHit(i + k - 1, CacheGet(c, key))]
            ELSE [st |-> "inflight", res |-> NoResponse]]

Misses(slots) == Cardinality({k \in DOMAIN slots : slots[k].st = "inflight"})

RECURSIVE InsertByIndex(_, _)
InsertByIndex(sorted, x) ==
    IF sorted = <<>> THEN <<x>>
    ELSE IF x.index < sorted[Len(sorted)].index
         THEN InsertByIndex(SubSeq(sorted, 1, Len(sorted) - 1), x) \o <<sorted[Len(sorted)]>>
         ELSE sorted \o <<x>>

\* the comparator's operands swapped: (a, b) => b.index - a.index
SortByIndexDescending(s) ==
    IF Len(s) <= 1 THEN s
    ELSE LET asc == [p \in 1..Len(s) |->
                        s[CHOOSE q \in 1..Len(s) :
                            Cardinality({u \in 1..Len(s) : s[u].index < s[q].index}) = p - 1]]
         IN  [p \in 1..Len(s) |-> asc[Len(s) + 1 - p]]

RECURSIVE SortByIndex(_)
\* results.sort((a, b) => a.index - b.index), a stable sort
SortByIndex(s) ==
    IF s = <<>> THEN <<>>
    ELSE InsertByIndex(SortByIndex(SubSeq(s, 1, Len(s) - 1)), s[Len(s)])

\* results.push(...batchResults.map(r => r.value || r.reason))
PushGroup(results, slots) == results \o [k \in DOMAIN slots |-> slots[k].res]

\* res.json({ success: true, results, total_texts })
BatchResponse(results, n) ==
    [status |-> 200, success |-> TRUE, results |-> results, total_texts |-> n]

\* What follows Promise.allSettled once every item of the group has settled:
\* the push, then the 100 ms delay when texts remain, else the sort and the
\* response.
GroupSettled(r) ==
    LET n   == Len(r.body.texts.items)
        all == PushGroup(r.results, r.slots)
    IN  IF r.i + batchSize < n
        THEN [r EXCEPT !.results = all, !.slots = <<>>, !.pc = "delay"]
        ELSE [r EXCEPT !.results = all, !.slots = <<>>, !.pc = "done",
                       !.resp = BatchResponse(SortByIndex(all), n)]

\* the group left as soon as one of its items has settled
AdvanceAnySettled(r) ==
    IF \E k \in DOMAIN r.slots : r.slots[k].st # "inflight" THEN GroupSettled(r) ELSE r

\* await Promise.allSettled(batchPromises)
Advance(r) == IF Misses(r.slots) = 0 THEN GroupSettled(r) ELSE r

\* The handler up to its first await.
BatchStart(b, c) ==
    LET rejected(msg) ==
            [kind |-> "batch", body |-> b, pc |-> "done", i |-> 0, slots |-> <<>>,
             results |-> <<>>, calls |-> 0, lookups |-> 0, sets |-> 0, ooo |-> FALSE,
             resp |-> BadRequest(msg)]
    IN  IF TextsIsEmpty(b) THEN rejected("texts must not be empty")
        ELSE IF TextsTooMany(b) THEN rejected("at most 50 texts")
        ELSE LET slots == GroupStart(b, c, 0)
             IN  Advance([kind |-> "batch", body |-> b, pc |-> "group", i |-> 0,
                          slots |-> slots, results |-> <<>>, calls |-> Misses(slots),
                          lookups |-> Len(slots), sets |-> 0, ooo |-> FALSE,
                          resp |-> NoResponse])

BatchReceive(b) ==
    /\ Len(reqs) - Clears < MaxReq
    /\ reqs' = Append(Forget(reqs), BatchStart(b, cache))
    /\ UNCHANGED <<cache, cl, sp>>

\* an item settles while an item before it in the group is still in flight
OutOfOrder(slots, k) == \E j \in 1..(k - 1) : slots[j].st = "inflight"

\* The runtime answers item k of the current group with a completion.
BatchItemOk(id, k, wording) ==
    /\ reqs[id].kind = "batch" /\ reqs[id].pc = "group"
    /\ k \in DOMAIN reqs[id].slots /\ reqs[id].slots[k].st = "inflight"
    /\ LET r      == reqs[id]
           text   == r.body.texts.items[r.i + k]
           raw    == Completion(TranslationPrompt(text, Field(r.body, "target_lang", DefaultTarget)),
                                wording)
           result == OllamaResult(raw, Field(r.body, "model", DefaultModel))
           slot   == [st |-> "ok", res |-> ItemOk(r.i + k - 1, result)]
       IN  /\ cache' = CacheSet(cache, RequestKey(r.body, text), result)
           /\ reqs' = [Forget(reqs) EXCEPT ![id] =
                  Advance([r EXCEPT !.slots[k] = slot, !.sets = @ + 1,
                                    !.ooo = @ \/ OutOfOrder(r.slots, k)])]
    /\ UNCHANGED <<cl, sp>>

\* The invocation for item k times out or fails.
BatchItemFail(id, k) ==
    /\ reqs[id].kind = "batch" /\ reqs[id].pc = "group"
    /\ k \in DOMAIN reqs[id].slots /\ reqs[id].slots[k].st = "inflight"
    /\ LET r    == reqs[id]
           text == r.body.texts.items[r.i + k]
           slot == [st |-> "failed", res |-> ItemFailed(r.i + k - 1, text, OllamaError)]
       IN  reqs' = [Forget(reqs) EXCEPT ![id] =
               Advance([r EXCEPT !.slots[k] = slot,
                                 !.ooo = @ \/ OutOfOrder(r.slots, k)])]
    /\ UNCHANGED <<cache, cl, sp>>

\* The 100 ms between groups elapse: the next group starts.
BatchDelayElapsed(id) ==
    /\ reqs[id].kind = "batch" /\ reqs[id].pc = "delay"
    /\ LET r     == reqs[id]
           i2    == r.i + batchSize
           slots == GroupStart(r.body, cache, i2)
       IN  reqs' = [Forget(reqs) EXCEPT ![id] =
               Advance([r EXCEPT !.i = i2, !.slots = slots, !.pc = "group",
                                 !.calls = @ + Misses(slots),
                                 !.lookups = @ + Len(slots)])]
    /\ UNCHANGED <<cache, cl, sp>>

----------------------------------------------------------------------------
(* DELETE /api/cache *)

\* cache.flushAll() and the answer; the request remembers the keys the cache
\* held when it arrived
ClearCache ==
    /\ Clears < MaxClear
    /\ cache' = FlushAll(cache)
    /\ reqs' = Append(Forget(reqs), [kind |-> "clear", pc |-> "done", had |-> DOMAIN cache,
                             resp |-> [status |-> 200, success |-> TRUE]])
    /\ UNCHANGED <<cl, sp>>

----------------------------------------------------------------------------
(* The proxy *)

EmptyCache == [k \in {} |-> {}]

Init ==
    /\ cache = EmptyCache
    /\ reqs = <<>>
    /\ cl = [pc |-> "idle"]
    /\ sp = [pc |-> "idle"]

\* The batches of BatchBodies have at most batchSize texts: they are one group,
\* and no pause between groups occurs (BatchDelayElapsed is a step of SeqNext).
Next ==
    \/ \E b \in TranslateBodies : TranslateReceive(b)
    \/ \E id \in DOMAIN reqs, w \in Wordings : TranslateRuntimeOk(id, w)
    \/ \E id \in DOMAIN reqs : TranslateRuntimeFail(id)
    \/ \E b \in BatchBodies : BatchReceive(b)
    \/ \E id \in DOMAIN reqs, k \in 1..batchSize, w \in Wordings : BatchItemOk(id, k, w)
    \/ \E id \in DOMAIN reqs, k \in 1..batchSize : BatchItemFail(id, k)
    \/ ClearCache

Spec == Init /\ [][Next]_vars

----------------------------------------------------------------------------
(* The proxy serving one request at a time, with requests at the limits of *)
(* the validation                                                          *)

AllDone == \A id \in DOMAIN reqs : reqs[id].pc = "done"

TranslateReceiveAlone(b) ==
    /\ AllDone
    /\ TranslateReceive(b)

BatchReceiveAlone(b) ==
    /\ AllDone
    /\ BatchReceive(b)

SeqNext ==
    \/ \E b \in LimitTranslateBodies : TranslateReceiveAlone(b)
    \/ \E id \in DOMAIN reqs, w \in LimitWordings : TranslateRuntimeOk(id, w)
    \/ \E id \in DOMAIN reqs : TranslateRuntimeFail(id)
    \/ \E b \in LimitBatchBodies : BatchReceiveAlone(b)
    \/ \E id \in DOMAIN reqs, k \in 1..batchSize, w \in LimitWordings : BatchItemOk(id, k, w)
    \/ \E id \in DOMAIN reqs, k \in 1..batchSize : BatchItemFail(id, k)
    \/ \E id \in DOMAIN reqs : BatchDelayElapsed(id)

SeqSpec == Init /\ [][SeqNext]_vars

----------------------------------------------------------------------------
(* The proxy serving a batch of more than one group together with other    *)
(* requests                                                                *)

\* a batch of two groups
LoadBatchBodies == { [texts |-> Arr([j \in 1..(batchSize + 1) |-> Hello])] }

LoadTranslateBodies == { [text |-> Hello] }

LoadNext ==
    \/ \E b \in LoadTranslateBodies : TranslateReceive(b)
    \/ \E id \in DOMAIN reqs, w \in LimitWordings : TranslateRuntimeOk(id, w)
    \/ \E b \in LoadBatchBodies : BatchReceive(b)
    \/ \E id \in DOMAIN reqs, k \in 1..batchSize, w \in LimitWordings : BatchItemOk(id, k, w)
    \/ \E id \in DOMAIN reqs : BatchDelayElapsed(id)

LoadSpec == Init /\ [][LoadNext]_vars

----------------------------------------------------------------------------
(* The proxy with a cache layer that can fail: cache.get or cache.set      *)
(* throws during the step                                                  *)

\* the message of the Error the cache throws
CacheError == "cache failure"

\* the value Promise.allSettled gives for a callback that threw: the Error
\* itself, which has no index, no success and no translation
RejectedItem(msg) == [message |-> msg]

\* The handler of /api/translate up to its first await when cache.get
\* throws: the validation is passed first, then the handler's catch answers.
TranslateStartCacheFails(b) ==
    IF TextIsEmpty(b) \/ TextTooLong(b) THEN TranslateStart(b, EmptyCache)
    ELSE [kind |-> "single", body |-> b, raw |-> <<>>, pc |-> "done", calls |-> 0,
          lookups |-> 1, sets |-> 0, resp |-> ServerError(CacheError), fault |-> "get"]

TranslateReceiveCacheFails(b) ==
    /\ Len(reqs) - Clears < MaxReq
    /\ reqs' = Append(Forget(reqs), TranslateStartCacheFails(b))
    /\ UNCHANGED <<cache, cl, sp>>

\* The runtime answers and cache.set throws: the handler's catch answers.
TranslateRuntimeOkCacheFails(id, wording) ==
    /\ reqs[id].kind = "single" /\ reqs[id].pc = "await"
    /\ LET b   == reqs[id].body
           raw == Completion(TranslationPrompt(b.text, Field(b, "target_lang", DefaultTarget)),
                             wording)
       IN  reqs' = [Forget(reqs) EXCEPT ![id] =
               [reqs[id] EXCEPT !.pc = "done", !.raw = raw, !.sets = @ + 1,
                                !.resp = ServerError(CacheError)] @@ [fault |-> "set"]]
    /\ UNCHANGED <<cache, cl, sp>>

\* The handler of /api/translate/batch when cache.get throws for the items
\* of a batch of one group: each callback throws before its try block, so
\* its promise is rejected and the Error is what the group pushes; the sort
\* compares undefined indexes and moves nothing.
BatchStartCacheFails(b) ==
    IF TextsIsEmpty(b) \/ TextsTooMany(b) \/ Len(b.texts.items) > batchSize
    THEN BatchStart(b, EmptyCache)
    ELSE LET n == Len(b.texts.items)
             all == [k \in 1..n |-> RejectedItem(CacheError)]
         IN  [kind |-> "batch", body |-> b, pc |-> "done", i |-> 0, slots |-> <<>>,
              results |-> all, calls |-> 0, lookups |-> n, sets |-> 0, ooo |-> FALSE,
              resp |-> BatchResponse(all, n), fault |-> "get"]

BatchReceiveCacheFails(b) ==
    /\ Len(reqs) - Clears < MaxReq
    /\ reqs' = Append(Forget(reqs), BatchStartCacheFails(b))
    /\ UNCHANGED <<cache, cl, sp>>

\* The runtime answers item k and cache.set throws: inside the callback's try
\* block, so the item is a failed one.
BatchItemOkCacheFails(id, k) ==
    /\ reqs[id].kind = "batch" /\ reqs[id].pc = "group"
    /\ k \in DOMAIN reqs[id].slots /\ reqs[id].slots[k].st = "inflight"
    /\ LET r    == reqs[id]
           text == r.body.texts.items[r.i + k]
           slot == [st |-> "failed", res |-> ItemFailed(r.i + k - 1, text, CacheError)]
       IN  reqs' = [Forget(reqs) EXCEPT ![id] =
               Advance([r EXCEPT !.slots[k] = slot, !.sets = @ + 1,
                                 !.ooo = @ \/ OutOfOrder(r.slots, k)]) @@ [fault |-> "set"]]
    /\ UNCHANGED <<cache, cl, sp>>

FaultNext ==
    \/ \E b \in LoadTranslateBodies : TranslateReceive(b)
    \/ \E b \in LoadTranslateBodies : TranslateReceiveCacheFails(b)
    \/ \E id \in DOMAIN reqs, w \in LimitWordings : TranslateRuntimeOk(id, w)
    \/ \E id \in DOMAIN reqs, w \in LimitWordings : TranslateRuntimeOkCacheFails(id, w)
    \/ \E b \in BatchBodies : BatchReceive(b)
    \/ \E b \in BatchBodies : BatchReceiveCacheFails(b)
    \/ \E id \in DOMAIN reqs, k \in 1..batchSize, w \in LimitWordings : BatchItemOk(id, k, w)
    \/ \E id \in DOMAIN reqs, k \in 1..batchSize : BatchItemOkCacheFails(id, k)

FaultSpec == Init /\ [][FaultNext]_vars

----------------------------------------------------------------------------
(* The proxy serving one request at a time, with texts that agree or       *)
(* differ around the end of the part of the encoding that enters the key   *)

\* 38 a's; 37 a's and a b (the upper four bits of a and b are equal); 37 a's
\* and a q (they differ); a b at byte 37; 37 a's; 37 a's and a line feed
\* (whose upper four bits are zero, as the padding's)
CollisionTexts ==
    { Rep("a", 38),
      Rep("a", 37) \o Rep("b", 1),
      Rep("a", 37) \o Rep("q", 1),
      Rep("a", 36) \o Rep("b", 1) \o Rep("a", 1),
      Rep("a", 37),
      Rep("a", 37) \o Rep("\n", 1) }

CollisionBodies == { [text |-> t] : t \in CollisionTexts }

CollisionBatchBodies ==
    { [texts |-> Arr(<<Rep("a", 38), Rep("a", 37) \o Rep("b", 1)>>)] }

CollisionNext ==
    \/ \E b \in CollisionBodies : TranslateReceiveAlone(b)
    \/ \E id \in DOMAIN reqs, w \in LimitWordings : TranslateRuntimeOk(id, w)
    \/ \E id \in DOMAIN reqs : TranslateRuntimeFail(id)
    \/ \E b \in CollisionBatchBodies : BatchReceiveAlone(b)
    \/ \E id \in DOMAIN reqs, k \in 1..batchSize, w \in LimitWordings : BatchItemOk(id, k, w)

CollisionSpec == Init /\ [][CollisionNext]_vars

----------------------------------------------------------------------------
(* The proxy with a runtime whose wording tells the two paths apart: plain *)
(* for /api/translate, relabelled for the items of a batch                 *)

CrossNext ==
    \/ \E b \in LoadTranslateBodies : TranslateReceive(b)
    \/ \E id \in DOMAIN reqs : TranslateRuntimeOk(id, "plain")
    \/ \E id \in DOMAIN reqs : TranslateRuntimeFail(id)
    \/ \E b \in BatchBodies : BatchReceive(b)
    \/ \E id \in DOMAIN reqs, k \in 1..batchSize : BatchItemOk(id, k, "relabelled")
    \/ \E id \in DOMAIN reqs, k \in 1..batchSize : BatchItemFail(id, k)

CrossSpec == Init /\ [][CrossNext]_vars

----------------------------------------------------------------------------
(* The proxy serving one request at a time, with batches whose items are   *)
(* blank, empty or longer than the limit of /api/translate                 *)

ItemBatchBodies ==
    { [texts |-> Arr(<<Hello, Rep(" ", 3)>>)],
      [texts |-> Arr(<<Rep("a", MaxTextLen + 1)>>)],
      [texts |-> Arr(<<Rep("a", MaxTextLen), <<>>>>)] }

ItemNext ==
    \/ \E b \in LimitTranslateBodies : TranslateReceiveAlone(b)
    \/ \E id \in DOMAIN reqs : TranslateRuntimeOk(id, "plain")
    \/ \E id \in DOMAIN reqs : TranslateRuntimeFail(id)
    \/ \E b \in ItemBatchBodies : BatchReceiveAlone(b)
    \/ \E id \in DOMAIN reqs, k \in 1..batchSize : BatchItemOk(id, k, "plain")
    \/ \E id \in DOMAIN reqs, k \in 1..batchSize : BatchItemFail(id, k)

ItemSpec == Init /\ [][ItemNext]_vars

----------------------------------------------------------------------------
(* LocalAITranslator.splitText *)

\* the characters of the texts given to splitText
Alphabet == {"a", "b", ".", " "}

\* [.!?。！？]
Terminators == {".", "!", "?"}

RECURSIVE RunLen(_, _)
\* the length of the longest prefix of s made of characters of class
RunLen(s, class) ==
    IF s # <<>> /\ Head(s) \in class THEN 1 + RunLen(Tail(s), class) ELSE 0

\* the length of the match of /[.!?。！？]+\s*/ at the start of s
MatchLen(s) ==
    LET t == RunLen(s, Terminators)
    IN  t + RunLen(SubSeq(s, t + 1, Len(s)), Whitespace)

RECURSIVE SplitPiecesNoCapture(_, _)
\* the split without the capture group: the matches are dropped
SplitPiecesNoCapture(rest, cur) ==
    IF rest = <<>> THEN <<cur>>
    ELSE IF Head(rest) \in Terminators
    THEN <<cur>> \o SplitPiecesNoCapture(SubSeq(rest, MatchLen(rest) + 1, Len(rest)), <<>>)
    ELSE SplitPiecesNoCapture(Tail(rest), Append(cur, Head(rest)))

RECURSIVE SplitPieces(_, _)
\* text.split(/([.!?。！？]+\s*)/): the pieces between the matches and the
\* matches themselves, in order (cur is the piece being read)
SplitPieces(rest, cur) ==
    IF rest = <<>> THEN <<cur>>
    ELSE IF Head(rest) \in Terminators
    THEN <<cur, SubSeq(rest, 1, MatchLen(rest))>>
         \o SplitPieces(SubSeq(rest, MatchLen(rest) + 1, Len(rest)), <<>>)
    ELSE SplitPieces(Tail(rest), Append(cur, Head(rest)))

\* the test passed by one character too many
FitsOffByOne(cur, sentence, maxLength) == Len(cur) + Len(sentence) <= maxLength + 1

\* currentSegment.length + sentence.length <= maxLength
Fits(cur, sentence, maxLength) == Len(cur) + Len(sentence) <= maxLength

RECURSIVE SplitLoop(_, _, _, _)
\* the for loop over the sentences, and the push of the last segment
SplitLoop(sentences, segments, cur, maxLength) ==
    IF sentences = <<>>
    THEN IF cur # <<>> THEN Append(segments, cur) ELSE segments
    ELSE LET sentence == Head(sentences)
         IN  IF Fits(cur, sentence, maxLength)
             THEN SplitLoop(Tail(sentences), segments, cur \o sentence, maxLength)
             ELSE IF cur # <<>>
             THEN SplitLoop(Tail(sentences), Append(segments, cur), sentence, maxLength)
             ELSE SplitLoop(Tail(sentences),
                            Append(segments, SubSeq(sentence, 1, maxLength)),
                            SubSeq(sentence, maxLength + 1, Len(sentence)), maxLength)

splitText(text, maxLength) ==
    IF Len(text) <= maxLength THEN <<text>>
    ELSE SplitLoop(SplitPieces(text, <<>>), <<>>, <<>>, maxLength)

\* the texts of at most n characters
TextsUpTo(n) == UNION { [1..k -> Alphabet] : k \in 0..n }

SplitInit ==
    /\ cache = EmptyCache
    /\ reqs = <<>>
    /\ cl = [pc |-> "idle"]
    /\ sp \in [pc : {"idle"}, text : TextsUpTo(MaxLen), maxLength : 1..MaxSplit,
               segments : {<<>>}]

SplitCall ==
    /\ sp.pc = "idle"
    /\ sp' = [sp EXCEPT !.pc = "done", !.segments = splitText(sp.text, sp.maxLength)]
    /\ UNCHANGED <<cache, reqs, cl>>

SplitNext == SplitCall

SplitSpec == SplitInit /\ [][SplitNext]_vars

RECURSIVE Concat(_)
\* segments.join('')
Concat(segments) ==
    IF segments = <<>> THEN <<>> ELSE Head(segments) \o Concat(Tail(segments))

----------------------------------------------------------------------------
(* LocalAITranslator.splitText on run-length encoded texts: the same       *)
(* algorithm, a run of equal characters at a time                          *)

RECURSIVE TextTake(_, _)
\* text.substring(0, k)
TextTake(t, k) ==
    IF k = 0 \/ t = <<>> THEN <<>>
    ELSE IF Head(t).n <= k THEN <<Head(t)>> \o TextTake(Tail(t), k - Head(t).n)
    ELSE <<[ch |-> Head(t).ch, n |-> k]>>

RECURSIVE TextDrop(_, _)
\* text.substring(k)
TextDrop(t, k) ==
    IF k = 0 \/ t = <<>> THEN t
    ELSE IF Head(t).n <= k THEN TextDrop(Tail(t), k - Head(t).n)
    ELSE <<[ch |-> Head(t).ch, n |-> Head(t).n - k]>> \o Tail(t)

RECURSIVE RunCount(_, _)
\* the number of leading runs of t made of characters of class
RunCount(t, class) ==
    IF t # <<>> /\ Head(t).ch \in class THEN 1 + RunCount(Tail(t), class) ELSE 0

\* the runs of the match of /[.!?。！？]+\s*/ at the start of t
MatchRuns(t) ==
    LET n == RunCount(t, Terminators)
    IN  n + RunCount(SubSeq(t, n + 1, Len(t)), Whitespace)

RECURSIVE TextSplitPieces(_, _)
\* text.split(/([.!?。！？]+\s*)/)
TextSplitPieces(rest, cur) ==
    IF rest = <<>> THEN <<cur>>
    ELSE IF Head(rest).ch \in Terminators
    THEN <<cur, SubSeq(rest, 1, MatchRuns(rest))>>
         \o TextSplitPieces(SubSeq(rest, MatchRuns(rest) + 1, Len(rest)), <<>>)
    ELSE TextSplitPieces(Tail(rest), Append(cur, Head(rest)))

RECURSIVE TextSplitLoop(_, _, _, _)
\* the for loop over the sentences, and the push of the last segment
TextSplitLoop(sentences, segments, cur, maxLength) ==
    IF sentences = <<>>
    THEN IF cur # <<>> THEN Append(segments, cur) ELSE segments
    ELSE LET sentence == Head(sentences)
         IN  IF TextLen(cur) + TextLen(sentence) <= maxLength
             THEN TextSplitLoop(Tail(sentences), segments, cur \o sentence, maxLength)
             ELSE IF cur # <<>>
             THEN TextSplitLoop(Tail(sentences), Append(segments, cur), sentence, maxLength)
             ELSE TextSplitLoop(Tail(sentences),
                                Append(segments, TextTake(sentence, maxLength)),
                                TextDrop(sentence, maxLength), maxLength)

\* splitText(text, maxLength)
TextSplit(text, maxLength) ==
    IF TextLen(text) <= maxLength THEN <<text>>
    ELSE TextSplitLoop(TextSplitPieces(text, <<>>), <<>>, <<>>, maxLength)

----------------------------------------------------------------------------
(* LocalAITranslator.translateText *)

\* texts given to translateText
ClientTexts == { Hello, Rep(" ", 3), Rep("a", MaxTextLen) }

\* How one fetch of POST /translate ends for the client:
\*   ok           status 200, a body with success = TRUE
\*   app_failure  status 200, a body with success = FALSE
\*   http_error   a status outside 200..299
\*   timeout      the 30 s timer aborts the fetch
\*   network      fetch rejects
\*   bad_json     response.json() rejects
FetchFailures == {"app_failure", "http_error", "timeout", "network", "bad_json"}

\* the message of the error caught for a failed fetch
FetchError(kind) ==
    CASE kind = "app_failure" -> "translation failed"
      [] kind = "http_error" -> "HTTP error"
      [] kind = "timeout" -> "aborted"
      [] kind = "network" -> "failed to fetch"
      [] kind = "bad_json" -> "unexpected token"

\* the limit missed by one: the loop's last pass not recognised
LastAttemptMissed(attempt) == attempt = retryCount + 1

\* attempt === this.retryCount
LastAttempt(attempt) == attempt = retryCount

\* the same wait before every retry
BackoffFlat(attempt) == BackoffUnit

\* 1000 * attempt
Backoff(attempt) == BackoffUnit * attempt

\* the value of a call that returns without a return statement
Undefined == [undefined |-> TRUE]

\* a segment that failed is dropped from the result
SegmentPieceDropped(result, segment) ==
    IF result.success THEN result.translation ELSE <<>>

\* what splitAndTranslate pushes for a segment: the translation, or the
\* segment itself when translateText failed on it
SegmentPiece(result, segment) ==
    IF result.success THEN result.translation ELSE segment

\* splitAndTranslate's result, from its frame after the last segment
SplitResult(f, targetLang) ==
    [success |-> TRUE, translation |-> Concat(f.translations),
     sourceLang |-> "auto", targetLang |-> targetLang, segments |-> Len(f.segments)]

\* the pause left out before the last segment
MoreSegmentsButLast(f) == f.i < Len(f.segments) - 1

\* i < segments.length - 1, with the model's i counting from 1
MoreSegments(f) == f.i < Len(f.segments)

RECURSIVE Return(_, _)
\* translateText returns result: to the caller of the client when no
\* splitAndTranslate is running, else into the for loop of the innermost
\* splitAndTranslate, which keeps the piece and either starts the 500 ms pause
\* or, after its last segment, returns in turn.
Return(c, result) ==
    IF c.stack = <<>>
    THEN [c EXCEPT !.pc = "done", !.result = result]
    ELSE LET top == Len(c.stack)
             f   == c.stack[top]
             f2  == [f EXCEPT !.translations = Append(@, SegmentPiece(result, f.segments[f.i])),
                              !.outcomes = Append(@, result)]
         IN  IF MoreSegments(f)
             THEN [c EXCEPT !.pc = "pause", !.stack[top] = f2, !.delayMs = SegmentPause]
             ELSE Return([c EXCEPT !.stack = SubSeq(c.stack, 1, top - 1),
                                   !.splits = Append(@, [text |-> f.text,
                                                         segments |-> f.segments,
                                                         outcomes |-> f2.outcomes,
                                                         result |-> SplitResult(f2, c.targetLang)])],
                         SplitResult(f2, c.targetLang))

\* the length check passed by texts of up to twice the limit
NeedsSplitLate(text) == TextLen(text) > 2 * MaxTextLen

\* text.length > 10000
NeedsSplit(text) == TextLen(text) > MaxTextLen

RECURSIVE Enter(_, _)
\* translateText(text) up to its first await: the blank text is refused, a
\* text over 10,000 characters goes to splitAndTranslate, which calls
\* translateText on its first segment, and any other text is sent.
Enter(c, text) ==
    IF text = <<>> \/ TrimIsEmpty(text)
    THEN Return(c, [success |-> FALSE, error |-> "text is empty"])
    ELSE IF NeedsSplit(text)
    THEN LET segments == TextSplit(text, SegmentLen)
         IN  Enter([c EXCEPT !.stack = Append(@, [text |-> text, segments |-> segments,
                                                  i |-> 1, translations |-> <<>>,
                                                  outcomes |-> <<>>])],
                   segments[1])
    ELSE [c EXCEPT !.pc = "fetch", !.text = text, !.attempt = 1, !.sent = 1,
                   !.inflight = 1, !.log = <<>>, !.waits = <<>>, !.delayMs = 0]

\* a call of translateText by the client's user
ClientCall(text, targetLang) ==
    /\ cl.pc = "idle"
    /\ cl' = Enter([pc |-> "idle", text |-> text, targetLang |-> targetLang, attempt |-> 0,
                    sent |-> 0, inflight |-> 0, log |-> <<>>, waits |-> <<>>, delayMs |-> 0,
                    result |-> Undefined, stack |-> <<>>, splits |-> <<>>], text)
    /\ UNCHANGED <<cache, reqs, sp>>

\* The fetch of the current attempt answers 200 with success = TRUE.
ClientFetchOk(wording, fromCache) ==
    /\ cl.pc = "fetch"
    /\ cl' = Return([cl EXCEPT !.inflight = 0, !.log = Append(@, "ok")],
                    [success |-> TRUE,
                     translation |-> <<TrTok(TranslationPrompt(cl.text, cl.targetLang),
                                             wording)>>,
                     sourceLang |-> "auto", targetLang |-> cl.targetLang,
                     fromCache |-> fromCache])
    /\ UNCHANGED <<cache, reqs, sp>>

\* The fetch of the current attempt fails: the catch block, which returns
\* after the last attempt and else starts the wait.
ClientFetchFail(kind) ==
    /\ cl.pc = "fetch"
    /\ IF LastAttempt(cl.attempt)
       THEN cl' = Return([cl EXCEPT !.inflight = 0, !.log = Append(@, kind)],
                         [success |-> FALSE, error |-> FetchError(kind),
                          retries |-> retryCount, originalText |-> cl.text])
       ELSE cl' = [cl EXCEPT
                      !.pc = "delay", !.inflight = 0, !.log = Append(@, kind),
                      !.waits = Append(@, Backoff(cl.attempt)),
                      !.delayMs = Backoff(cl.attempt)]
    /\ UNCHANGED <<cache, reqs, sp>>

\* The wait ends: attempt++, and the next pass of the loop, if there is one.
ClientDelayElapsed ==
    /\ cl.pc = "delay"
    /\ IF cl.attempt + 1 <= retryCount
       THEN cl' = [cl EXCEPT !.pc = "fetch", !.attempt = @ + 1, !.sent = @ + 1,
                             !.inflight = 1, !.delayMs = 0]
       ELSE cl' = [cl EXCEPT !.pc = "done", !.attempt = @ + 1, !.delayMs = 0,
                             !.result = Undefined]
    /\ UNCHANGED <<cache, reqs, sp>>

\* The 500 ms between two segments end: i++, and translateText on the next
\* segment.
ClientPauseElapsed ==
    /\ cl.pc = "pause"
    /\ LET top == Len(cl.stack)
           i2  == cl.stack[top].i + 1
       IN  cl' = Enter([cl EXCEPT !.stack[top].i = i2, !.delayMs = 0],
                       cl.stack[top].segments[i2])
    /\ UNCHANGED <<cache, reqs, sp>>

ClientNext ==
    \/ \E text \in ClientTexts, lang \in {"zh-tw", "en"} : ClientCall(text, lang)
    \/ \E w \in Wordings, fromCache \in BOOLEAN : ClientFetchOk(w, fromCache)
    \/ \E kind \in FetchFailures : ClientFetchFail(kind)
    \/ ClientDelayElapsed

ClientSpec == Init /\ [][ClientNext]_vars

----------------------------------------------------------------------------
(* LocalAITranslator.splitAndTranslate: translateText on texts of more     *)
(* than 10,000 characters                                                  *)

\* three sentences that fit a segment each
ThreeSentences ==
    Rep("a", 4000) \o Rep(".", 1) \o Rep(" ", 1) \o Rep("b", 4000) \o Rep(".", 1)
        \o Rep(" ", 1) \o Rep("a", 4000)

\* texts of more than 10,000 characters: three sentences; one sentence of
\* 10,001 characters; a letter and 10,000 spaces, whose second segment is
\* blank; a short sentence before one of 10,001 characters, which is a
\* segment of its own and is split again
LongTexts ==
    { ThreeSentences,
      Rep("a", MaxTextLen + 1),
      Rep("a", 1) \o Rep(" ", MaxTextLen),
      Rep("b", 1) \o Rep(".", 1) \o Rep(" ", 1) \o Rep("a", MaxTextLen + 1) }

SplitTranslateNext ==
    \/ \E text \in LongTexts, lang \in {"zh-tw", "en"} : ClientCall(text, lang)
    \/ \E w \in LimitWordings, fromCache \in BOOLEAN : ClientFetchOk(w, fromCache)
    \/ \E kind \in FetchFailures : ClientFetchFail(kind)
    \/ ClientDelayElapsed
    \/ ClientPauseElapsed

SplitTranslateSpec == Init /\ [][SplitTranslateNext]_vars

----------------------------------------------------------------------------
(* translateText on texts of any length, with every HTTP request answered  *)
(* or failed and every timer fired in finite time                          *)

TermNext ==
    \/ \E text \in ClientTexts \cup LongTexts : ClientCall(text, "zh-tw")
    \/ ClientFetchOk("plain", FALSE)
    \/ \E kind \in {"timeout", "http_error"} : ClientFetchFail(kind)
    \/ ClientDelayElapsed
    \/ ClientPauseElapsed

\* fetch resolves or rejects (the 30 s abort timer at the latest), and
\* setTimeout fires
TermSpec ==
    /\ Init
    /\ [][TermNext]_vars
    /\ WF_vars(ClientFetchOk("plain", FALSE)
                 \/ (\E kind \in {"timeout", "http_error"} : ClientFetchFail(kind)))
    /\ WF_vars(ClientDelayElapsed)
    /\ WF_vars(ClientPauseElapsed)

----------------------------------------------------------------------------
(* LocalAITranslator.shouldTranslate *)

\* one character of the range U+4E00..U+9FFF
Han == "han"

\* a character of another script, outside ASCII and outside U+4E00..U+9FFF
Kana == "kana"

\* the characters of \w that are no digits
Letters == {"H", "e", "l", "o", "w", "r", "d", "a", "b"}

\* the underscore taken for a symbol
NonWordOrUnderscore(c) == c \notin Letters

\* [\d\s\W]: every character but the letters and the underscore
NonWord(c) == c \notin Letters /\ c # "_"

\* /^[\d\s\W]+$/.test(text)
OnlyDigitsSpaceSymbols(text) ==
    /\ text # <<>>
    /\ \A i \in DOMAIN text : NonWord(text[i])

\* text.match(/[\u4e00-\u9fff]/g): the number of matches
ChineseChars(text) == Cardinality({i \in DOMAIN text : text[i] = Han})

\* the ratio test passed at exactly 80%
MostlyChineseInclusive(text) == 10 * ChineseChars(text) >= 8 * Len(text)

\* chineseChars.length / text.length > 0.8
MostlyChinese(text) == 10 * ChineseChars(text) > 8 * Len(text)

shouldTranslate(text) ==
    IF Len(text) < 3 THEN FALSE
    ELSE IF OnlyDigitsSpaceSymbols(text) THEN FALSE
    ELSE IF MostlyChinese(text) THEN FALSE
    ELSE TRUE

\* the characters of the texts given to shouldTranslate
ShouldAlphabet == {"a", "1", " ", "!", Han}

HelloWorld == <<"H", "e", "l", "l", "o", " ", "w", "o", "r", "l", "d">>

\* the texts given to shouldTranslate
ShouldTexts ==
    UNION { [1..k -> ShouldAlphabet] : k \in 0..MaxShould }
    \cup { HelloWorld, <<"1", "2", "3">>, <<"!", "!", "?", "?">> }
    \cup { <<"_", "1", "2">>, <<"_", "_">>, <<Han, Han, Han, Han, "_">>,
           <<Han, Han, Han, Han, Han, "_">>, <<Kana, Kana, Kana>>,
           <<Kana, Kana, "a">> }

ShouldInit ==
    /\ cache = EmptyCache
    /\ reqs = <<>>
    /\ cl = [pc |-> "idle"]
    /\ sp \in [pc : {"idle"}, text : ShouldTexts, out : {FALSE}]

ShouldCall ==
    /\ sp.pc = "idle"
    /\ sp' = [sp EXCEPT !.pc = "done", !.out = shouldTranslate(sp.text)]
    /\ UNCHANGED <<cache, reqs, cl>>

ShouldNext == ShouldCall

ShouldSpec == ShouldInit /\ [][ShouldNext]_vars

----------------------------------------------------------------------------
(* LocalAITranslator.batchTranslate and LocalAITranslator.translateWebPage *)

\* the arrays given to batchTranslate
ClientBatchTexts ==
    { NotArray, Arr(<<>>), Arr(<<Hello>>), Arr(<<Hello, World>>),
      Arr([j \in 1..ClientMaxBatch |-> Hello]),
      Arr([j \in 1..(ClientMaxBatch + 1) |-> Hello]) }

\* the limit missed by one
ClientTextsTooManyOffByOne(texts) == Len(texts.items) > ClientMaxBatch + 1

\* texts.length > 50
ClientTextsTooMany(texts) == Len(texts.items) > ClientMaxBatch

\* which items of a batch of n the service reports as translated: every
\* choice for a small batch, and for a larger one all, none, all but the first
ResultFlags(n) ==
    IF n <= MaxNodes THEN [1..n -> BOOLEAN]
    ELSE { [j \in 1..n |-> TRUE], [j \in 1..n |-> FALSE], [j \in 1..n |-> j # 1] }

\* the results of the proxy's batch operation for texts: one per text,
\* sorted by index as batchTranslate returns them, a failed item carrying its
\* text
ServiceResults(texts, targetLang, flags) ==
    SortByIndex(
        [j \in 1..Len(texts) |->
            IF flags[j]
            THEN ItemOk(j - 1, OllamaResult(Completion(TranslationPrompt(texts[j], targetLang),
                                                       "plain"), DefaultModel))
            ELSE ItemFailed(j - 1, texts[j], OllamaError)])

\* String.prototype.trim on a sequence of characters
Trim(s) ==
    LET lead  == RunLen(s, Whitespace)
        rest  == SubSeq(s, lead + 1, Len(s))
        trail == RunLen([j \in 1..Len(rest) |-> rest[Len(rest) + 1 - j]], Whitespace)
    IN  SubSeq(rest, 1, Len(rest) - trail)

\* original.length > 0 && this.shouldTranslate(original)
Eligible(node) == Len(Trim(node.text)) > 0 /\ shouldTranslate(Trim(node.text))

\* a text node of the document
TextNode(text) == [kind |-> "text", text |-> text]

\* the container createBilingualDisplay puts in the place of a text node
BilingualBlock(original, translation) ==
    [kind |-> "bilingual", original |-> original, translation |-> translation]

RECURSIVE ApplyResults(_, _, _)
\* textNodes.forEach: the nodes from the current one on, after the overlay
ApplyResults(nodes, results, appliedCount) ==
    IF nodes = <<>> THEN [nodes |-> <<>>, appliedCount |-> appliedCount]
    ELSE LET node     == Head(nodes)
             original == Trim(node.text)
             applies  == /\ Eligible(node)
                         /\ appliedCount + 1 \in DOMAIN results
                         /\ results[appliedCount + 1].success
             rest     == ApplyResults(Tail(nodes), results,
                                      IF applies THEN appliedCount + 1 ELSE appliedCount)
         IN  [nodes |-> <<IF applies
                          THEN BilingualBlock(original, results[appliedCount + 1].translation)
                          ELSE node>> \o rest.nodes,
              appliedCount |-> rest.appliedCount]

\* batchTranslate returns result: to its caller, or into translateWebPage,
\* which gives a failure back as it is and else applies the results
BatchReturn(c, result) ==
    IF c.op = "batch" THEN [c EXCEPT !.pc = "done", !.result = result]
    ELSE IF ~result.success THEN [c EXCEPT !.pc = "done", !.result = result]
    ELSE LET after == ApplyResults(c.nodes, result.results, 0)
         IN  [c EXCEPT !.pc = "done", !.nodes = after.nodes,
                       !.result = [success |-> TRUE, translatedNodes |-> after.appliedCount,
                                   totalTexts |-> Len(c.texts.items)]]

\* batchTranslate(texts) up to its await
BatchEnter(c, texts) ==
    IF ~texts.array \/ Len(texts.items) = 0
    THEN BatchReturn([c EXCEPT !.texts = texts],
                     [success |-> FALSE, error |-> "the array of texts is empty"])
    ELSE IF ClientTextsTooMany(texts)
    THEN BatchReturn([c EXCEPT !.texts = texts],
                     [success |-> FALSE, error |-> "at most 50 texts at once"])
    ELSE [c EXCEPT !.pc = "bfetch", !.texts = texts,
                   !.requests = Append(@, [texts |-> texts.items, source_lang |-> "auto",
                                           target_lang |-> c.targetLang,
                                           model |-> DefaultModel])]

\* a call of batchTranslate by the client's user
ClientBatchCall(texts, targetLang) ==
    /\ cl.pc = "idle"
    /\ cl' = BatchEnter([pc |-> "idle", op |-> "batch", targetLang |-> targetLang,
                         texts |-> NotArray, nodes |-> <<>>, before |-> <<>>,
                         requests |-> <<>>, served |-> <<>>, result |-> Undefined], texts)
    /\ UNCHANGED <<cache, reqs, sp>>

\* the text contents of the nodes of the documents
NodeTexts ==
    { HelloWorld, <<" ", "a", "b", "a", " ">>, <<"1", "2", "3">>, <<" ">> }

\* the text nodes extractTextNodes finds in the document: up to MaxNodes of
\* them, or more eligible ones than one batch takes
Documents ==
    UNION { [1..k -> {TextNode(t) : t \in NodeTexts}] : k \in 0..MaxNodes }
    \cup { [j \in 1..(ClientMaxBatch + 1) |-> TextNode(HelloWorld)] }

\* the eligible texts cut down to what one batch takes
TextsToTranslateCapped(nodes) ==
    LET eligible == SelectSeq(nodes, Eligible)
        n        == IF Len(eligible) > ClientMaxBatch THEN ClientMaxBatch ELSE Len(eligible)
    IN  [j \in 1..n |-> Trim(eligible[j].text)]

\* textNodes.map(node => node.textContent.trim()).filter(...)
TextsToTranslate(nodes) ==
    LET eligible == SelectSeq(nodes, Eligible)
    IN  [j \in 1..Len(eligible) |-> Trim(eligible[j].text)]

\* a call of translateWebPage
PageCall(nodes, targetLang) ==
    /\ cl.pc = "idle"
    /\ LET c == [pc |-> "idle", op |-> "page", targetLang |-> targetLang,
                 texts |-> Arr(TextsToTranslate(nodes)), nodes |-> nodes, before |-> nodes,
                 requests |-> <<>>, served |-> <<>>, result |-> Undefined]
       IN  IF TextsToTranslate(nodes) = <<>>
           THEN cl' = [c EXCEPT !.pc = "done",
                                !.result = [success |-> TRUE, message |-> "nothing to translate"]]
           ELSE cl' = BatchEnter(c, Arr(TextsToTranslate(nodes)))
    /\ UNCHANGED <<cache, reqs, sp>>

\* The batch request is answered 200 with success = TRUE and the results.
ClientBatchFetchOk(flags) ==
    /\ cl.pc = "bfetch"
    /\ flags \in ResultFlags(Len(cl.texts.items))
    /\ LET results == ServiceResults(cl.texts.items, cl.targetLang, flags)
       IN  cl' = BatchReturn([cl EXCEPT !.served = results],
                             [success |-> TRUE, results |-> results,
                              totalTexts |-> Len(results)])
    /\ UNCHANGED <<cache, reqs, sp>>

\* The batch request fails (status, body, timeout, network): the catch block.
ClientBatchFetchFail(kind) ==
    /\ cl.pc = "bfetch"
    /\ cl' = BatchReturn(cl, [success |-> FALSE, error |-> FetchError(kind)])
    /\ UNCHANGED <<cache, reqs, sp>>

ClientBatchNext ==
    \/ \E texts \in ClientBatchTexts, lang \in {"zh-tw", "en"} : ClientBatchCall(texts, lang)
    \/ \E nodes \in Documents, lang \in {"zh-tw", "en"} : PageCall(nodes, lang)
    \/ \E n \in 1..ClientMaxBatch : \E flags \in ResultFlags(n) : ClientBatchFetchOk(flags)
    \/ \E kind \in FetchFailures : ClientBatchFetchFail(kind)

ClientBatchSpec == Init /\ [][ClientBatchNext]_vars

----------------------------------------------------------------------------
(* Properties of the proxy *)

\* the request that arrives in this step, if one does
Arrives(id) == id \in DOMAIN reqs' /\ id \notin DOMAIN reqs

\* a body that passes /api/translate's validation
ValidText(b) ==
    /\ "text" \in DOMAIN b
    /\ \E i \in 1..Len(b.text) : b.text[i].ch \notin Whitespace
    /\ TextLen(b.text) <= 10000

\* the key of (model, source_lang, target_lang, text) of a body
KeyOf(b, text) ==
    CacheKey(DefaultModel, DefaultSource,
             IF "target_lang" \in DOMAIN b THEN b.target_lang ELSE "zh-tw", text)

\* the translated text of a prompt, in any of the runtime's wordings, cleaned
CleanedFor(text, b) ==
    { <<TrTok(TranslationPrompt(text, IF "target_lang" \in DOMAIN b
                                      THEN b.target_lang ELSE "zh-tw"), w)>> :
        w \in Wordings \cup LimitWordings }

\* C1 - Translate, cache hit: a request that passes validation and whose key
\* the cache holds is answered in the same step with the cached translation
\* tagged from_cache = TRUE, without a runtime invocation, and the cache is
\* left as it was.
C1_CacheHit ==
    [][\A id \in DOMAIN reqs' :
          (/\ Arrives(id)
           /\ reqs'[id].kind = "single"
           /\ ValidText(reqs'[id].body)
           /\ KeyOf(reqs'[id].body, reqs'[id].body.text) \in DOMAIN cache)
          => LET new == reqs'[id]
                 hit == cache[KeyOf(new.body, new.body.text)]
             IN  /\ new.pc = "done"
                 /\ new.resp.status = 200
                 /\ new.resp.success = TRUE
                 /\ new.resp.from_cache = TRUE
                 /\ new.resp.translation = hit.translation
                 /\ new.calls = 0
                 /\ cache' = cache]_vars

C1_Witness ==
    \E id \in DOMAIN reqs :
        /\ reqs[id].kind = "single" /\ reqs[id].pc = "done"
        /\ reqs[id].resp.status = 200
        /\ reqs[id].resp.from_cache = TRUE
        /\ reqs[id].calls = 0
        /\ reqs[id].resp.translation \in CleanedFor(reqs[id].body.text, reqs[id].body)

\* C2 - Translate, cache miss answered by the runtime: the arrival writes
\* nothing to the cache and invokes the runtime once; the step in which the
\* runtime answers stores the cleaned result under the request's key and
\* returns it tagged from_cache = FALSE, after exactly one invocation.
C2_MissStoresCleanedResult ==
    [][\A id \in DOMAIN reqs' :
          /\ (Arrives(id) /\ reqs'[id].kind = "single")
             => /\ cache' = cache
                /\ reqs'[id].sets = 0
                /\ reqs'[id].pc = "await" => reqs'[id].calls = 1
          /\ (/\ id \in DOMAIN reqs
              /\ reqs[id].kind = "single" /\ reqs[id].pc = "await"
              /\ reqs'[id].pc = "done" /\ reqs'[id].resp.success)
             => LET r   == reqs'[id]
                    key == KeyOf(r.body, r.body.text)
                IN  /\ reqs[id].calls = 1 /\ reqs[id].sets = 0
                    /\ r.calls = 1 /\ r.sets = 1
                    /\ r.resp.status = 200
                    /\ r.resp.from_cache = FALSE
                    /\ r.resp.translation \in CleanedFor(r.body.text, r.body)
                    /\ key \in DOMAIN cache'
                    /\ cache'[key] = [success |-> TRUE, translation |-> r.resp.translation,
                                      model |-> DefaultModel]
                    /\ \A k \in DOMAIN cache : k # key => (k \in DOMAIN cache' /\ cache'[k] = cache[k])]_vars

C2_Witness ==
    \E id \in DOMAIN reqs :
        /\ reqs[id].kind = "single" /\ reqs[id].pc = "done"
        /\ reqs[id].resp.status = 200
        /\ reqs[id].resp.from_cache = FALSE
        /\ reqs[id].calls = 1 /\ reqs[id].sets = 1
        /\ cache[KeyOf(reqs[id].body, reqs[id].body.text)].translation
               = reqs[id].resp.translation

\* the items of a batch request that have failed so far
FailedItems(r) ==
    Cardinality({k \in DOMAIN r.slots : r.slots[k].st = "failed"})
    + Cardinality({p \in DOMAIN r.results : ~r.results[p].success})

\* C3 - runtime failure: a Translate request whose invocation fails ends with
\* status 500, success = FALSE and a message, after one invocation and with
\* the cache unchanged; a batch item's failure leaves the cache unchanged and
\* invokes nothing; and every cache entry is a successful result.
C3_FailureLeavesCache ==
    [][/\ \A id \in DOMAIN reqs :
            /\ (/\ reqs[id].kind = "single" /\ reqs[id].pc = "await"
                /\ reqs'[id].pc = "done" /\ ~reqs'[id].resp.success)
               => /\ reqs'[id].resp.status = 500
                  /\ reqs'[id].resp.error = OllamaError
                  /\ reqs'[id].calls = 1
                  /\ cache' = cache
            /\ (/\ reqs[id].kind = "batch" /\ reqs[id].pc = "group"
                /\ FailedItems(reqs'[id]) > FailedItems(reqs[id]))
               => /\ reqs'[id].calls = reqs[id].calls
                  /\ cache' = cache
       /\ \A k \in DOMAIN cache' : cache'[k].success = TRUE]_vars

C3_Witness ==
    /\ DOMAIN cache # {}
    /\ \E id \in DOMAIN reqs :
          /\ reqs[id].kind = "single" /\ reqs[id].pc = "done"
          /\ reqs[id].resp.status = 500
          /\ reqs[id].calls = 1

\* C4 - Translate validation: a request whose text is missing, empty,
\* whitespace-only or longer than 10,000 characters is answered 400 with
\* success = FALSE in the step it arrives, with no cache lookup, no cache
\* write and no runtime invocation; a non-blank text of exactly 10,000
\* characters is not rejected.
C4_TranslateValidation ==
    [][\A id \in DOMAIN reqs' :
          (Arrives(id) /\ reqs'[id].kind = "single")
          => LET r == reqs'[id]
                 b == r.body
             IN  /\ (\/ "text" \notin DOMAIN b
                     \/ b.text = <<>>
                     \/ \A i \in 1..Len(b.text) : b.text[i].ch \in Whitespace
                     \/ TextLen(b.text) >= 10001)
                    => /\ r.pc = "done"
                       /\ r.resp.status = 400 /\ r.resp.success = FALSE
                       /\ r.lookups = 0 /\ r.sets = 0 /\ r.calls = 0
                       /\ cache' = cache
                 /\ ValidText(b)
                    => /\ r.resp.status # 400
                       /\ r.lookups = 1]_vars

C4_Witness ==
    \E id \in DOMAIN reqs :
        /\ reqs[id].kind = "single"
        /\ "text" \in DOMAIN reqs[id].body
        /\ TextLen(reqs[id].body.text) = 10001
        /\ reqs[id].body.text[1].ch = "a"
        /\ reqs[id].resp.status = 400
        /\ reqs[id].calls = 0

\* a body that passes /api/translate/batch's validation
ValidTexts(b) ==
    /\ "texts" \in DOMAIN b
    /\ b.texts.array
    /\ Len(b.texts.items) \in 1..50

\* C5 - BatchTranslate validation: a batch request whose texts is missing or
\* no array, is an empty array or has more than 50 elements is answered 400
\* in the step it arrives, with no cache lookup, no cache write and no
\* runtime invocation; an array of 1 to 50 texts is not rejected.
C5_BatchValidation ==
    [][\A id \in DOMAIN reqs' :
          (Arrives(id) /\ reqs'[id].kind = "batch")
          => LET r == reqs'[id]
                 b == r.body
             IN  /\ ~ValidTexts(b)
                    => /\ r.pc = "done"
                       /\ r.resp.status = 400 /\ r.resp.success = FALSE
                       /\ r.lookups = 0 /\ r.sets = 0 /\ r.calls = 0
                       /\ cache' = cache
                 /\ ValidTexts(b)
                    => /\ r.resp.status # 400
                       /\ r.lookups >= 1]_vars

C5_Witness ==
    \E id \in DOMAIN reqs :
        /\ reqs[id].kind = "batch"
        /\ "texts" \in DOMAIN reqs[id].body
        /\ Len(reqs[id].body.texts.items) = 51
        /\ reqs[id].resp.status = 400
        /\ reqs[id].calls = 0

\* a batch request that has been answered with its results
Answered(r) == r.kind = "batch" /\ r.pc = "done" /\ r.resp.status = 200

\* the result at position p of an answered batch is the one of texts[p]: the
\* text itself when it failed, else a translation of a text with its key
ResultIsFor(res, b, text) ==
    IF res.success
    THEN /\ Len(res.translation) = 1
         /\ res.translation[1].t = "tr"
         /\ KeyOf(b, res.translation[1].v.of.text) = KeyOf(b, text)
    ELSE res.translation = text

\* C6 - BatchTranslate ordering: whatever the order in which the items'
\* invocations completed, the answer holds exactly n results and the one at
\* position i carries index i and is the result of texts[i].
C6_BatchOrdering ==
    \A id \in DOMAIN reqs :
        Answered(reqs[id])
        => LET texts == reqs[id].body.texts.items
               out   == reqs[id].resp.results
           IN  /\ Len(out) = Len(texts)
               /\ reqs[id].resp.total_texts = Len(texts)
               /\ \A p \in 1..Len(out) :
                     /\ out[p].index = p - 1
                     /\ ResultIsFor(out[p], reqs[id].body, texts[p])

C6_Witness ==
    \E id \in DOMAIN reqs :
        /\ Answered(reqs[id])
        /\ reqs[id].ooo
        /\ Len(reqs[id].resp.results) > 5
        /\ \E p, q \in 1..Len(reqs[id].resp.results) :
              /\ reqs[id].resp.results[p].success
              /\ ~reqs[id].resp.results[q].success

\* where item idx (from 0) of a batch request stands: its result once it has
\* settled
NotStarted == [status |-> -1]

ItemView(r, idx) ==
    IF r.pc = "done" THEN r.resp.results[idx + 1]
    ELSE IF idx < Len(r.results) THEN r.results[idx + 1]
    ELSE IF (idx - r.i + 1) \in DOMAIN r.slots THEN r.slots[idx - r.i + 1].res
    ELSE NotStarted

ItemSettled(r, idx) == "index" \in DOMAIN ItemView(r, idx)

\* C7 - BatchTranslate failure isolation: the step in which an item fails
\* changes that item alone, to a failed result at its index with a message
\* and the item's text as translation; a settled item's result never
\* changes; the batch goes on, and its answer is 200, success = TRUE, with
\* all n results.
C7_FailureIsolation ==
    [][\A id \in DOMAIN reqs :
          (reqs[id].kind = "batch" /\ reqs[id].pc # "done")
          => LET r     == reqs[id]
                 r2    == reqs'[id]
                 texts == r.body.texts.items
                 all   == 0..(Len(texts) - 1)
             IN  /\ r2.pc \in {"group", "delay", "done"}
                 /\ r2.pc = "done"
                    => /\ r2.resp.status = 200 /\ r2.resp.success = TRUE
                       /\ Len(r2.resp.results) = Len(texts)
                 /\ \A idx \in all :
                       ItemSettled(r, idx) => ItemView(r2, idx) = ItemView(r, idx)
                 /\ FailedItems(r2) > FailedItems(r)
                    => \E idx \in all :
                          /\ ~ItemSettled(r, idx)
                          /\ ItemView(r2, idx) =
                                [index |-> idx, success |-> FALSE, error |-> OllamaError,
                                 translation |-> texts[idx + 1]]
                          /\ \A other \in all \ {idx} :
                                ItemView(r2, other) = ItemView(r, other)]_vars

C7_Witness ==
    \E id \in DOMAIN reqs :
        /\ Answered(reqs[id])
        /\ Len(reqs[id].resp.results) = 6
        /\ reqs[id].resp.results[1].success
        /\ ~reqs[id].resp.results[2].success
        /\ reqs[id].resp.results[2].translation = World
        /\ reqs[id].resp.results[3].success

----------------------------------------------------------------------------
(* Properties of translateText *)

\* the failed attempts of the call so far
FailedAttempts == Cardinality({k \in DOMAIN cl.log : cl.log[k] # "ok"})

\* C8 - translateText's retry bound, for a non-blank text of at most 10,000
\* characters: at most 3 requests are sent; a success ends the call with
\* success = TRUE and that translation, and nothing is sent after it; a
\* timeout, a non-success status and a success = FALSE body are each a failed
\* attempt followed by the next one; after 3 failed attempts the result is
\* success = FALSE with originalText = text; the call always returns a result.
C8_RetryBound ==
    (cl.pc # "idle" /\ cl.text # <<>> /\ ~TrimIsEmpty(cl.text) /\ TextLen(cl.text) <= 10000)
    => /\ cl.sent <= 3
       /\ cl.sent = Len(cl.log) + cl.inflight
       /\ \A k \in DOMAIN cl.log : cl.log[k] = "ok" => (k = Len(cl.log) /\ cl.pc = "done")
       /\ cl.pc \in {"fetch", "delay", "done"}
       /\ cl.pc = "delay" => (FailedAttempts = Len(cl.log) /\ Len(cl.log) < 3)
       /\ cl.pc = "done"
          => /\ "success" \in DOMAIN cl.result
             /\ cl.result.success
                => /\ cl.log[Len(cl.log)] = "ok"
                   /\ cl.result.translation[1].v.of.text = cl.text
             /\ ~cl.result.success
                => /\ FailedAttempts = 3 /\ cl.sent = 3
                   /\ cl.result.originalText = cl.text

C8_Witness ==
    /\ cl.pc = "done"
    /\ cl.log = <<"timeout", "http_error", "app_failure">>
    /\ cl.result.success = FALSE
    /\ cl.result.originalText = Hello

\* C9 - translateText's backoff: the wait after failed attempt k (k = 1, 2)
\* is 1000 * k ms, so the waits of a call are 1000 then 2000; no request is
\* in flight during a wait, and no wait follows the third failed attempt.
C9_Backoff ==
    (cl.pc \in {"fetch", "delay", "done"})
    => /\ Len(cl.waits) <= 2
       /\ \A k \in DOMAIN cl.waits : cl.waits[k] = 1000 * k
       /\ Len(cl.waits) = (IF FailedAttempts = 3 THEN 2 ELSE FailedAttempts)
       /\ cl.pc = "delay"
          => /\ cl.inflight = 0
             /\ cl.delayMs = 1000 * FailedAttempts
             /\ cl.sent = FailedAttempts
       /\ cl.pc = "fetch" => cl.sent = Len(cl.waits) + 1
       /\ (cl.pc = "done" /\ FailedAttempts = 3) => cl.waits = <<1000, 2000>>

C9_Witness ==
    /\ cl.pc = "done"
    /\ FailedAttempts = 3
    /\ cl.waits = <<1000, 2000>>

----------------------------------------------------------------------------
(* Properties of splitText *)

\* every piece of the split on the terminators is at most maxLength long
PiecesFit(text, maxLength) ==
    LET pieces == SplitPieces(text, <<>>)
    IN  \A k \in DOMAIN pieces : Len(pieces[k]) <= maxLength

\* C10 - splitText's length bound, ordinary case: for a text longer than
\* maxLength whose sentences and terminator runs are each at most maxLength
\* long, no returned segment is longer than maxLength.
C10_SegmentsFit ==
    (/\ sp.pc = "done"
     /\ Len(sp.text) > sp.maxLength
     /\ PiecesFit(sp.text, sp.maxLength))
    => \A k \in DOMAIN sp.segments : Len(sp.segments[k]) <= sp.maxLength

C10_Witness ==
    /\ sp.pc = "done"
    /\ sp.maxLength = 2
    /\ sp.text = <<"a", ".", " ", "b", ".">>
    /\ PiecesFit(sp.text, sp.maxLength)
    /\ Len(sp.segments) = 3

\* a sentence (a piece between two terminator runs) is longer than maxLength
HasLongSentence(text, maxLength) ==
    LET pieces == SplitPieces(text, <<>>)
    IN  \E k \in DOMAIN pieces : k % 2 = 1 /\ Len(pieces[k]) > maxLength

\* C11 - splitText's length bound, over-long sentence: for a text with a
\* sentence longer than maxLength, wherever it stands and however long it
\* is, no returned segment is longer than maxLength.
C11_LongSentenceForceSplit ==
    (/\ sp.pc = "done"
     /\ HasLongSentence(sp.text, sp.maxLength))
    => \A k \in DOMAIN sp.segments : Len(sp.segments[k]) <= sp.maxLength

\* C12 as stated - splitText round trip: for every text and every
\* maxLength >= 1 the segments, joined in order, are the text, and no
\* segment is the empty string.
C12_RoundTripNoEmptySegment ==
    sp.pc = "done"
    => /\ Concat(sp.segments) = sp.text
       /\ \A k \in DOMAIN sp.segments : sp.segments[k] # <<>>

\* C12 - splitText round trip: for every text and every maxLength >= 1 the
\* segments, joined in order, are the text, and no segment is the empty
\* string unless the text is itself empty, which is returned as its one
\* segment.
C12_RoundTrip ==
    sp.pc = "done"
    => /\ Concat(sp.segments) = sp.text
       /\ sp.text # <<>> => \A k \in DOMAIN sp.segments : sp.segments[k] # <<>>
       /\ sp.text = <<>> => sp.segments = <<sp.text>>

C12_Witness ==
    /\ sp.pc = "done"
    /\ sp.maxLength = 2
    /\ sp.text = <<"a", "a", "a", ".", " ">>
    /\ Len(sp.segments) = 3
    /\ Concat(sp.segments) = sp.text

----------------------------------------------------------------------------
(* Properties of splitAndTranslate *)

\* the pieces a finished splitAndTranslate call must have joined: for each
\* segment the translation translateText returned for it, or the segment
ExpectedPieces(e) ==
    [i \in 1..Len(e.segments) |->
        IF e.outcomes[i].success THEN e.outcomes[i].translation ELSE e.segments[i]]

\* C13 - splitAndTranslate's result: every finished call returns
\* success = TRUE and the in-order join of one piece per segment, the
\* translation of segment i when translateText succeeded on it and segment i
\* itself when it failed, also when every segment failed; and translateText
\* on a text of more than 10,000 characters returns that result.
C13_SplitAndTranslateResult ==
    (cl.pc # "idle")
    => /\ \A k \in DOMAIN cl.splits :
             LET e == cl.splits[k]
             IN  /\ e.segments = TextSplit(e.text, 5000)
                 /\ Len(e.outcomes) = Len(e.segments)
                 /\ \A i \in DOMAIN e.segments :
                       (e.outcomes[i].success /\ TextLen(e.segments[i]) <= 10000)
                       => e.outcomes[i].translation[1].v.of.text = e.segments[i]
                 /\ e.result.success = TRUE
                 /\ e.result.segments = Len(e.segments)
                 /\ e.result.translation = Concat(ExpectedPieces(e))
       /\ cl.pc = "done"
          => /\ cl.splits # <<>>
             /\ TextLen(cl.splits[Len(cl.splits)].text) > 10000
             /\ cl.result = cl.splits[Len(cl.splits)].result
             /\ cl.stack = <<>>

C13_Witness ==
    /\ cl.pc = "done"
    /\ cl.result.success
    /\ cl.result.segments = 3
    /\ LET e == cl.splits[Len(cl.splits)]
       IN  /\ e.text = ThreeSentences
           /\ e.outcomes[1].success
           /\ ~e.outcomes[2].success
           /\ ~e.outcomes[3].success
           /\ cl.result.translation = e.outcomes[1].translation \o e.segments[2] \o e.segments[3]

----------------------------------------------------------------------------
(* Properties of shouldTranslate *)

\* C15 - shouldTranslate: FALSE for "123", for a text of whitespace only, for
\* "!!??", for every text of fewer than 3 characters and for every text of
\* which more than 80% of the characters are in U+4E00..U+9FFF; a text of
\* which exactly 80% are, with a letter among the others, is not excluded;
\* TRUE for "Hello world".
C15_ShouldTranslateExamples ==
    (sp.pc = "done")
    => /\ sp.text = <<"1", "2", "3">> => ~sp.out
       /\ (\A i \in DOMAIN sp.text : sp.text[i] \in Whitespace) => ~sp.out
       /\ sp.text = <<"!", "!", "?", "?">> => ~sp.out
       /\ Len(sp.text) < 3 => ~sp.out
       /\ 5 * Cardinality({i \in DOMAIN sp.text : sp.text[i] = Han}) > 4 * Len(sp.text)
          => ~sp.out
       /\ (/\ 5 * Cardinality({i \in DOMAIN sp.text : sp.text[i] = Han}) = 4 * Len(sp.text)
           /\ sp.text # <<>>
           /\ \E i \in DOMAIN sp.text : sp.text[i] = "a")
          => sp.out
       /\ sp.text = HelloWorld => sp.out

C15_Witness ==
    /\ sp.pc = "done"
    /\ sp.text = <<Han, Han, "a", Han, Han, Han>>
    /\ ~sp.out

----------------------------------------------------------------------------
(* Properties of batchTranslate and translateWebPage *)

\* the place of node k among the eligible nodes of the document
EligibleRank(nodes, k) == Cardinality({j \in 1..k : Eligible(nodes[j])})

\* C14 - translateWebPage's overlay: after a successful batch call every
\* eligible text node whose own result has success = TRUE is the bilingual
\* block of its original text and its translation, and every other node is
\* as it was, whatever the results of the other nodes.
C14_OverlayPerNode ==
    (cl.pc = "done" /\ cl.op = "page" /\ cl.served # <<>> /\ cl.result.success)
    => /\ Len(cl.nodes) = Len(cl.before)
       /\ \A k \in DOMAIN cl.before :
             LET node == cl.before[k]
                 own  == cl.served[EligibleRank(cl.before, k)]
             IN  IF Eligible(node) /\ own.success
                 THEN cl.nodes[k] = BilingualBlock(Trim(node.text), own.translation)
                 ELSE cl.nodes[k] = node

\* C16 - the client's batchTranslate: no array, an empty array or more than
\* 50 texts return success = FALSE with no request sent; any other call sends
\* exactly one request, carrying all the texts, and returns the service's
\* results or a failure result.
C16_ClientBatchSingleRequest ==
    (cl.pc # "idle" /\ cl.op = "batch")
    => /\ (~cl.texts.array \/ Len(cl.texts.items) = 0 \/ Len(cl.texts.items) > 50)
          => /\ cl.pc = "done"
             /\ cl.requests = <<>>
             /\ cl.result.success = FALSE
       /\ (cl.texts.array /\ Len(cl.texts.items) \in 1..50)
          => /\ cl.pc \in {"bfetch", "done"}
             /\ Len(cl.requests) = 1
             /\ cl.requests[1].texts = cl.texts.items
       /\ cl.pc = "done"
          => /\ "success" \in DOMAIN cl.result
             /\ cl.result.success
                => /\ cl.served # <<>>
                   /\ cl.result.results = cl.served
                   /\ Len(cl.result.results) = Len(cl.texts.items)
             /\ ~cl.result.success => "error" \in DOMAIN cl.result

C16_Witness ==
    /\ cl.pc = "done" /\ cl.op = "batch"
    /\ Len(cl.texts.items) = 50
    /\ Len(cl.requests) = 1
    /\ cl.result.success
    /\ ~cl.result.results[1].success

----------------------------------------------------------------------------
(* Properties of DELETE /api/cache and of concurrent requests *)

\* the DELETE request answered in the server's last step, if there is one
JustCleared(id) == id \in DOMAIN reqs /\ reqs[id].kind = "clear" /\ reqs[id].had # {}

\* C17 - ClearCache: whatever the cache held, right after the DELETE it holds
\* no entry and the answer is 200 with success = TRUE; a Translate that
\* follows for a key the cache held before is a miss, which invokes the
\* runtime once and whose answer carries from_cache = FALSE.
C17_ClearCacheEmpties ==
    [][/\ \A id \in DOMAIN reqs' :
             (Arrives(id) /\ reqs'[id].kind = "clear")
             => /\ reqs'[id].had = DOMAIN cache
                /\ Cardinality(DOMAIN cache') = 0
                /\ reqs'[id].resp.status = 200 /\ reqs'[id].resp.success = TRUE
       /\ \A id \in DOMAIN reqs', c \in DOMAIN reqs :
             (/\ Arrives(id) /\ reqs'[id].kind = "single"
              /\ ValidText(reqs'[id].body)
              /\ JustCleared(c)
              /\ KeyOf(reqs'[id].body, reqs'[id].body.text) \in reqs[c].had)
             => /\ reqs'[id].pc = "await"
                /\ reqs'[id].calls = 1 /\ reqs'[id].lookups = 1
       /\ \A id \in DOMAIN reqs :
             (/\ reqs[id].kind = "single" /\ reqs[id].pc = "await"
              /\ reqs'[id].pc = "done" /\ reqs'[id].resp.success)
             => reqs'[id].resp.from_cache = FALSE]_vars

C17_Witness ==
    /\ Cardinality(DOMAIN cache) = 0
    /\ \E c \in DOMAIN reqs :
          /\ c = Len(reqs)
          /\ reqs[c].kind = "clear"
          /\ reqs[c].resp.success
          /\ KeyOf([text |-> Hello], Hello) \in reqs[c].had

\* request r has an invocation in flight for key
InFlightFor(r, key) ==
    \/ /\ r.kind = "single" /\ r.pc = "await"
       /\ KeyOf(r.body, r.body.text) = key
    \/ /\ r.kind = "batch" /\ r.pc = "group"
       /\ \E k \in DOMAIN r.slots :
             /\ r.slots[k].st = "inflight"
             /\ KeyOf(r.body, r.body.texts.items[r.i + k]) = key

\* C18 - no de-duplication of concurrent misses: a Translate request that
\* arrives while another invocation for its key is in flight and the cache
\* has no entry for the key invokes the runtime itself; every item of a batch
\* group whose key the cache lacks is invoked, items with the same key
\* included; each invocation that succeeds writes its own result under the
\* key, over the entry an earlier one wrote, and a Translate request so
\* answered carries from_cache = FALSE.
C18_NoDeduplication ==
    [][\A id \in DOMAIN reqs' :
          /\ (/\ Arrives(id) /\ reqs'[id].kind = "single"
              /\ ValidText(reqs'[id].body)
              /\ KeyOf(reqs'[id].body, reqs'[id].body.text) \notin DOMAIN cache
              /\ \E o \in DOMAIN reqs :
                    InFlightFor(reqs[o], KeyOf(reqs'[id].body, reqs'[id].body.text)))
             => /\ reqs'[id].pc = "await"
                /\ reqs'[id].calls = 1
          /\ (/\ Arrives(id) /\ reqs'[id].kind = "batch"
              /\ ValidTexts(reqs'[id].body))
             => LET r == reqs'[id]
                    n == Len(r.body.texts.items)
                    missing == {k \in 1..(IF n < 5 THEN n ELSE 5) :
                                   KeyOf(r.body, r.body.texts.items[k]) \notin DOMAIN cache}
                IN  /\ r.calls = Cardinality(missing)
                    /\ \A k \in missing : r.slots[k].st = "inflight"
          /\ (/\ id \in DOMAIN reqs
              /\ reqs[id].kind = "single" /\ reqs[id].pc = "await"
              /\ reqs'[id].pc = "done" /\ reqs'[id].resp.success)
             => /\ reqs'[id].resp.from_cache = FALSE
                /\ cache'[KeyOf(reqs[id].body, reqs[id].body.text)].translation
                       = reqs'[id].resp.translation
          /\ (/\ id \in DOMAIN reqs
              /\ reqs[id].kind = "batch" /\ reqs[id].pc = "group")
             => \A k \in DOMAIN reqs[id].slots :
                   (/\ reqs[id].slots[k].st = "inflight"
                    /\ ItemSettled(reqs'[id], reqs[id].i + k - 1)
                    /\ ItemView(reqs'[id], reqs[id].i + k - 1).success)
                   => cache'[KeyOf(reqs[id].body, reqs[id].body.texts.items[reqs[id].i + k])].translation
                          = ItemView(reqs'[id], reqs[id].i + k - 1).translation]_vars

\* both items of a batch of two equal texts were invoked, the second answered
\* first, and the cache holds what the first, answered later, wrote
C18_Witness ==
    \E id \in DOMAIN reqs :
        /\ Answered(reqs[id])
        /\ reqs[id].ooo
        /\ reqs[id].calls = 2 /\ reqs[id].sets = 2
        /\ LET out == reqs[id].resp.results
           IN  /\ out[1].success /\ out[2].success
               /\ out[1].translation # out[2].translation
               /\ cache[KeyOf(reqs[id].body, Hello)].translation = out[1].translation

----------------------------------------------------------------------------
(* Properties of the batch groups *)

\* the sub-requests of batch request r that are in flight
InFlight(r) == IF r.kind = "batch" /\ r.pc = "group" THEN Misses(r.slots) ELSE 0

\* C19 - BatchTranslate's group barrier: the texts are taken in consecutive
\* groups of 5, the last one possibly smaller; at most 5 sub-requests of a
\* batch are in flight; the results of all earlier groups are there, and no
\* later item has started, while a group is in flight; and sub-requests are
\* only started in a step before which none of the batch was in flight.
C19_GroupBarrier ==
    [][\A id \in DOMAIN reqs' :
          (reqs'[id].kind = "batch" /\ reqs'[id].pc \in {"group", "delay"})
          => LET r == reqs'[id]
                 n == Len(r.body.texts.items)
             IN  /\ r.i % 5 = 0 /\ r.i < n
                 /\ InFlight(r) <= 5
                 /\ r.pc = "group"
                    => /\ Len(r.slots) = (IF n - r.i < 5 THEN n - r.i ELSE 5)
                       /\ InFlight(r) >= 1
                       /\ Len(r.results) = r.i
                 /\ r.pc = "delay"
                    => /\ r.slots = <<>>
                       /\ Len(r.results) = r.i + 5
                       /\ r.i + 5 < n
                 /\ \A p \in DOMAIN r.results :
                       "index" \in DOMAIN r.results[p] /\ r.results[p].index < r.i + 5
                 /\ \A idx \in 0..(n - 1) :
                       idx >= r.i + Len(r.slots) /\ idx >= Len(r.results)
                       => ItemView(r, idx) = NotStarted
                 /\ (id \in DOMAIN reqs /\ r.calls > reqs[id].calls)
                    => /\ InFlight(reqs[id]) = 0
                       /\ reqs[id].pc = "delay"
                       /\ r.calls - reqs[id].calls <= 5]_vars

C19_Witness ==
    \E id \in DOMAIN reqs :
        /\ reqs[id].kind = "batch" /\ reqs[id].pc = "group"
        /\ Len(reqs[id].body.texts.items) = 50
        /\ reqs[id].i = 45
        /\ Len(reqs[id].results) = 45
        /\ InFlight(reqs[id]) = 2
        /\ reqs[id].calls >= 10

\* the invocations request r has in flight
Invocations(r) ==
    IF r.kind = "single" /\ r.pc = "await" THEN 1 ELSE InFlight(r)

RECURSIVE TotalInFlight(_)
\* the invocations of the model runtime in flight for the requests rs
TotalInFlight(rs) ==
    IF rs = <<>> THEN 0 ELSE Invocations(Head(rs)) + TotalInFlight(Tail(rs))

\* the requests of a kind that are being served
InService(kind) ==
    Cardinality({id \in DOMAIN reqs : reqs[id].kind = kind /\ reqs[id].pc # "done"})

\* C20 as stated - downstream load cap: in every reachable state of the
\* service at most 5 invocations of the model runtime are in flight, also
\* when several batch or single requests are served at the same time.
C20_GlobalLoadCap == TotalInFlight(reqs) <= 5

\* C20 - downstream load cap: the invocations in flight for one batch request
\* are at most 5; those of the requests served at the same time add up, to at
\* most 5 for each batch request and 1 for each single request in service.
C20_LoadCapPerBatch ==
    /\ \A id \in DOMAIN reqs : Invocations(reqs[id]) <= 5
    /\ TotalInFlight(reqs) <= 5 * InService("batch") + InService("single")

C20_Witness ==
    /\ TotalInFlight(reqs) = 6
    /\ \E id \in DOMAIN reqs : reqs[id].kind = "batch" /\ InFlight(reqs[id]) = 5
    /\ \E id \in DOMAIN reqs : reqs[id].kind = "single" /\ reqs[id].pc = "await"

----------------------------------------------------------------------------
(* Properties of the cache layer *)

\* C21 - the cache is best-effort: a request during which cache.get or
\* cache.set threw is answered as a miss would be: 200 with success = TRUE
\* and the runtime's translation after an invocation, and each of a batch's
\* items is a successful one.
C21_CacheBestEffort ==
    \A id \in DOMAIN reqs :
        (/\ reqs[id].kind \in {"single", "batch"}
         /\ "fault" \in DOMAIN reqs[id]
         /\ reqs[id].pc = "done"
         /\ reqs[id].resp.status # 400)
        => /\ reqs[id].resp.status = 200
           /\ reqs[id].resp.success = TRUE
           /\ reqs[id].calls >= 1
           /\ reqs[id].kind = "single" => "translation" \in DOMAIN reqs[id].resp
           /\ reqs[id].kind = "batch"
              => \A p \in DOMAIN reqs[id].resp.results :
                    /\ "success" \in DOMAIN reqs[id].resp.results[p]
                    /\ reqs[id].resp.results[p].success

\* the text a cached translation is the translation of
SourceOf(entry) == entry.translation[1].v.of.text

\* byte k of a text, 0 where the text has ended
ByteAt(t, k) == IF TextLen(t) >= k THEN TextPrefix(t, k)[k] ELSE "end"

\* two texts agree on what the first 50 characters of their base64 encodings
\* carry: the first 37 bytes, and the upper four bits of byte 38
AgreeOnKeyPart(t1, t2) ==
    /\ \A k \in 1..37 : ByteAt(t1, k) = ByteAt(t2, k)
    /\ (IF TextLen(t1) >= 38 THEN HighNibble(ByteAt(t1, 38)) ELSE 0)
           = (IF TextLen(t2) >= 38 THEN HighNibble(ByteAt(t2, 38)) ELSE 0)

\* the cache entries written for a text that agrees with text on the key part
Colliding(text) ==
    {k \in DOMAIN cache : k[3] = "zh-tw" /\ AgreeOnKeyPart(SourceOf(cache[k]), text)}

\* C22 - cache key collision: a Translate whose text agrees with the text of
\* a cached entry (same model and languages) on the part that enters the key
\* is answered with that entry's translation, from_cache = TRUE, without an
\* invocation, also when the two texts are distinct; a Translate whose text
\* agrees with no cached text on that part is a miss.
C22_KeyCollision ==
    [][\A id \in DOMAIN reqs' :
          (Arrives(id) /\ reqs'[id].kind = "single" /\ ValidText(reqs'[id].body))
          => LET r == reqs'[id]
             IN  /\ Cardinality(Colliding(r.body.text)) <= 1
                 /\ \A k \in Colliding(r.body.text) :
                       /\ KeyOf(r.body, r.body.text) = k
                       /\ r.pc = "done"
                       /\ r.resp.from_cache = TRUE
                       /\ r.resp.translation = cache[k].translation
                       /\ r.calls = 0
                 /\ Colliding(r.body.text) = {}
                    => /\ KeyOf(r.body, r.body.text) \notin DOMAIN cache
                       /\ r.pc = "await" /\ r.calls = 1]_vars

C22_Witness ==
    \E id \in DOMAIN reqs :
        /\ reqs[id].kind = "single" /\ reqs[id].pc = "done"
        /\ reqs[id].body.text = Rep("a", 37) \o Rep("\n", 1)
        /\ reqs[id].resp.status = 200
        /\ reqs[id].resp.from_cache = TRUE
        /\ reqs[id].calls = 0
        /\ SourceOf(reqs[id].resp) = Rep("a", 37)

\* C23 - batch items follow Translate's cache logic: an item and a Translate
\* request with the same model, languages and text have the same key; an
\* arriving Translate, and each item of an arriving batch's first group, is
\* a hit exactly when the cache holds that key, whichever path wrote the
\* entry, and is then answered with the entry's translation and without an
\* invocation; and both paths write their result under that key.
C23_BatchSharesCache ==
    [][\A id \in DOMAIN reqs' :
          /\ (Arrives(id) /\ reqs'[id].kind = "single" /\ ValidText(reqs'[id].body))
             => LET r   == reqs'[id]
                    key == KeyOf(r.body, r.body.text)
                IN  IF key \in DOMAIN cache
                    THEN /\ r.pc = "done" /\ r.calls = 0
                         /\ r.resp.translation = cache[key].translation
                    ELSE r.pc = "await" /\ r.calls = 1
          /\ (Arrives(id) /\ reqs'[id].kind = "batch" /\ ValidTexts(reqs'[id].body))
             => LET r     == reqs'[id]
                    texts == r.body.texts.items
                    first == 1..(IF Len(texts) < 5 THEN Len(texts) ELSE 5)
                    hits  == {k \in first : KeyOf(r.body, texts[k]) \in DOMAIN cache}
                IN  /\ r.calls = Cardinality(first \ hits)
                    /\ \A k \in hits :
                          /\ ItemSettled(r, k - 1)
                          /\ ItemView(r, k - 1).success
                          /\ ItemView(r, k - 1).translation
                                 = cache[KeyOf(r.body, texts[k])].translation
                    /\ \A k \in first \ hits : ~ItemSettled(r, k - 1)
          /\ (/\ id \in DOMAIN reqs
              /\ reqs[id].kind = "single" /\ reqs[id].pc = "await"
              /\ reqs'[id].pc = "done" /\ reqs'[id].resp.success)
             => cache'[KeyOf(reqs[id].body, reqs[id].body.text)].translation
                    = reqs'[id].resp.translation
          /\ (/\ id \in DOMAIN reqs
              /\ reqs[id].kind = "batch" /\ reqs[id].pc = "group")
             => \A k \in DOMAIN reqs[id].slots :
                   (/\ reqs[id].slots[k].st = "inflight"
                    /\ ItemSettled(reqs'[id], reqs[id].i + k - 1)
                    /\ ItemView(reqs'[id], reqs[id].i + k - 1).success)
                   => cache'[KeyOf(reqs[id].body, reqs[id].body.texts.items[reqs[id].i + k])].translation
                          = ItemView(reqs'[id], reqs[id].i + k - 1).translation]_vars

\* a Translate answered from an entry that an item of a batch wrote
C23_Witness ==
    \E id \in DOMAIN reqs :
        /\ reqs[id].kind = "single" /\ reqs[id].pc = "done"
        /\ reqs[id].resp.status = 200
        /\ reqs[id].resp.from_cache = TRUE
        /\ reqs[id].calls = 0
        /\ reqs[id].resp.translation[1].v.wording = "relabelled"
        /\ SourceOf(reqs[id].resp) = reqs[id].body.text

\* the results the proxy has produced: the answers of /api/translate and
\* the settled items of the batches, each with the text it is for
ProducedResults ==
    {[res |-> reqs[id].resp, item |-> FALSE,
      text |-> IF "text" \in DOMAIN reqs[id].body THEN reqs[id].body.text ELSE <<>>] :
        id \in {i \in DOMAIN reqs : reqs[i].kind = "single" /\ reqs[i].pc = "done"}}
    \cup
    UNION {{[res |-> ItemView(reqs[id], k - 1),
             text |-> reqs[id].body.texts.items[k], item |-> TRUE] :
               k \in {j \in DOMAIN reqs[id].body.texts.items :
                         ItemSettled(reqs[id], j - 1)}} :
        id \in {i \in DOMAIN reqs : reqs[i].kind = "batch" /\ ValidTexts(reqs[i].body)}}

\* C24 - in every result the proxy produces, of a Translate and of every
\* item of a batch, translation is present if and only if success is true
\* and error is present if and only if success is false.
C24_ShapeIff ==
    \A p \in ProducedResults :
        /\ ("translation" \in DOMAIN p.res) <=> p.res.success
        /\ ("error" \in DOMAIN p.res) <=> ~p.res.success

\* C24, amended - error is present if and only if success is false; a
\* successful result has a translation; a failed Translate has none; a
\* failed item of a batch has one, the item's own text.
C24_Shape ==
    \A p \in ProducedResults :
        /\ ("error" \in DOMAIN p.res) <=> ~p.res.success
        /\ p.res.success => "translation" \in DOMAIN p.res
        /\ (~p.res.success /\ ~p.item) => "translation" \notin DOMAIN p.res
        /\ (~p.res.success /\ p.item)
               => /\ "translation" \in DOMAIN p.res
                  /\ p.res.translation = p.text

\* a batch answered with a translated item and a failed one
C24_Witness ==
    \E id \in DOMAIN reqs :
        /\ reqs[id].kind = "batch" /\ reqs[id].pc = "done"
        /\ reqs[id].resp.status = 200
        /\ \E p, q \in ProducedResults :
              /\ p.item /\ q.item
              /\ p.res.success /\ "error" \notin DOMAIN p.res
              /\ ~q.res.success /\ q.res.translation = q.text
                 /\ "error" \in DOMAIN q.res

\* a text that is non-empty after trimming and has at most 10,000 characters
ValidItem(text) ==
    /\ \E i \in 1..Len(text) : text[i].ch \notin Whitespace
    /\ TextLen(text) <= 10000

\* C25 - runtime input: every text of an invocation of the model runtime,
\* made for a Translate or for an item of a batch, is non-empty after
\* trimming and has at most 10,000 characters.
C25_RuntimeInput ==
    \A id \in DOMAIN reqs :
        /\ (reqs[id].kind = "single" /\ reqs[id].pc = "await")
           => ValidItem(reqs[id].body.text)
        /\ (reqs[id].kind = "batch" /\ reqs[id].pc = "group")
           => \A k \in DOMAIN reqs[id].slots :
                 reqs[id].slots[k].st = "inflight"
                 => ValidItem(reqs[id].body.texts.items[reqs[id].i + k])

\* C26 - splitAndTranslate is sequential: the first request for a segment
\* is sent either as the call starts or out of the 500 ms pause that follows
\* the resolution of the segment before it; while a segment's requests and
\* retries run, exactly the segments before it are resolved, and at most one
\* request is in flight; a resolved segment that is not the last is followed
\* by the pause, during which nothing is in flight; the pause is only taken
\* before a further segment, and a call returns with all segments resolved.
C26_Sequential ==
    [][/\ cl'.pc \in {"fetch", "delay", "pause"}
          => /\ cl'.inflight <= 1
             /\ cl'.inflight = 1 <=> cl'.pc = "fetch"
             /\ \A d \in DOMAIN cl'.stack :
                   LET f == cl'.stack[d]
                   IN  Len(f.outcomes) = IF d = Len(cl'.stack) /\ cl'.pc = "pause"
                                         THEN f.i ELSE f.i - 1
       /\ (cl'.pc = "fetch" /\ cl'.attempt = 1 /\ cl'.stack # <<>>)
          => \/ cl.pc = "idle"
             \/ /\ cl.pc = "pause" /\ cl.delayMs = SegmentPause
                /\ cl.inflight = 0
       /\ cl'.pc = "pause"
          => LET f == cl'.stack[Len(cl'.stack)]
             IN  /\ f.i < Len(f.segments)
                 /\ cl'.delayMs = SegmentPause
       /\ cl.pc \in {"fetch", "delay", "pause"}
          => /\ \A d \in DOMAIN cl.stack \cap DOMAIN cl'.stack :
                   Len(cl'.stack[d].outcomes) > Len(cl.stack[d].outcomes)
                   => /\ cl'.pc = "pause" /\ d = Len(cl'.stack)
                      /\ Len(cl'.stack[d].outcomes) = Len(cl.stack[d].outcomes) + 1
             /\ (cl.pc = "pause" /\ cl'.pc # "pause")
                => Len(cl'.stack) >= Len(cl.stack) \/ cl'.pc = "done"
       /\ cl'.pc \in {"fetch", "delay", "pause", "done"}
          => \A j \in DOMAIN cl'.splits :
                Len(cl'.splits[j].outcomes) = Len(cl'.splits[j].segments)]_vars

\* the pause after the second of three segments, the first of which failed
\* after its retries and the second of which was translated
C26_Witness ==
    /\ cl.pc = "pause" /\ cl.delayMs = SegmentPause /\ cl.inflight = 0
    /\ Len(cl.stack) = 1
    /\ cl.stack[1].i = 2 /\ Len(cl.stack[1].segments) = 3
    /\ ~cl.stack[1].outcomes[1].success
    /\ cl.stack[1].outcomes[1].retries = retryCount
    /\ cl.stack[1].outcomes[2].success

\* C27 - translateText terminates: once called it returns a result, on
\* every text; every splitAndTranslate running is on a text of more than
\* 10,000 characters whose segments are each strictly shorter than the text,
\* a nested one being on a segment of the one around it; and no request
\* carries more than 10,000 characters.
C27_Termination ==
    /\ [](cl.pc = "fetch" => TextLen(cl.text) <= 10000)
    /\ [](cl.pc # "idle"
          => \A d \in DOMAIN cl.stack :
                LET f == cl.stack[d]
                IN  /\ TextLen(f.text) > 10000
                    /\ \A k \in DOMAIN f.segments :
                          TextLen(f.segments[k]) < TextLen(f.text)
                    /\ d > 1 => f.text = cl.stack[d - 1].segments[cl.stack[d - 1].i])
    /\ (cl.pc # "idle") ~> (cl.pc = "done" /\ cl.result # Undefined)

\* a call returned whose second segment had more than 10,000 characters and
\* was split in turn
C27_Witness ==
    /\ cl.pc = "done" /\ cl.result.success
    /\ Len(cl.splits) = 2
    /\ TextLen(cl.splits[1].text) > 10000
    /\ cl.splits[2].segments[2] = cl.splits[1].text
    /\ cl.result = cl.splits[2].result

\* the nodes translateWebPage has replaced
Replaced == {k \in DOMAIN cl.before : cl.nodes[k] # cl.before[k]}

\* C28 - translateWebPage never misattributes: a node it has replaced is an
\* eligible node, and shows its own trimmed text with the translation of the
\* successful result at the node's position among the eligible nodes, which
\* is the result with that index for that text of the request; and
\* translatedNodes is the number of nodes replaced, at most totalTexts.
C28_NoMisattribution ==
    (cl.pc = "done" /\ cl.op = "page" /\ cl.served # <<>> /\ cl.result.success)
    => /\ Len(cl.nodes) = Len(cl.before)
       /\ \A k \in Replaced :
             LET node == cl.before[k]
                 rank == EligibleRank(cl.before, k)
                 own  == cl.served[rank]
             IN  /\ Eligible(node)
                 /\ own.success /\ own.index = rank - 1
                 /\ cl.requests[1].texts[rank] = Trim(node.text)
                 /\ own.translation
                        = <<TrTok(TranslationPrompt(Trim(node.text), cl.targetLang), "plain")>>
                 /\ cl.nodes[k] = BilingualBlock(Trim(node.text), own.translation)
       /\ cl.result.translatedNodes = Cardinality(Replaced)
       /\ cl.result.translatedNodes <= cl.result.totalTexts
       /\ cl.result.totalTexts = Len(cl.requests[1].texts)

\* a page of three nodes whose first and third are eligible, have different
\* texts and are both replaced
C28_Witness ==
    /\ cl.pc = "done" /\ cl.op = "page" /\ cl.result.success
    /\ Len(cl.before) = 3
    /\ Replaced = {1, 3}
    /\ ~Eligible(cl.before[2])
    /\ Trim(cl.before[1].text) # Trim(cl.before[3].text)
    /\ cl.result.translatedNodes = 2 /\ cl.result.totalTexts = 2

\* C29 - translateWebPage on a large page: with more than 50 eligible text
\* nodes the call has handed all their texts to batchTranslate in one array
\* and has returned, with success = FALSE, no request sent and every node of
\* the document as it was.
C29_LargePageRejected ==
    (/\ cl.pc # "idle" /\ cl.op = "page"
     /\ Cardinality({k \in DOMAIN cl.before : Eligible(cl.before[k])}) > 50)
    => /\ cl.pc = "done"
       /\ Len(cl.texts.items) = Cardinality({k \in DOMAIN cl.before : Eligible(cl.before[k])})
       /\ \A k \in DOMAIN cl.before :
             Eligible(cl.before[k])
             => cl.texts.items[EligibleRank(cl.before, k)] = Trim(cl.before[k].text)
       /\ cl.result.success = FALSE
       /\ "error" \in DOMAIN cl.result
       /\ cl.requests = <<>>
       /\ cl.served = <<>>
       /\ cl.nodes = cl.before

\* the page of 51 eligible nodes, refused
C29_Witness ==
    /\ cl.pc = "done" /\ cl.op = "page"
    /\ Len(cl.before) = 51
    /\ \A k \in DOMAIN cl.before : Eligible(cl.before[k])
    /\ Len(cl.texts.items) = 51
    /\ ~cl.result.success
    /\ cl.requests = <<>>
    /\ cl.nodes = cl.before

----------------------------------------------------------------------------
(* The characterisation of shouldTranslate *)

\* an ASCII letter or the underscore
LetterOrUnderscore(c) ==
    c \in {"H", "e", "l", "o", "w", "r", "d", "a", "b", "_"}

\* C30 - shouldTranslate returns TRUE if and only if the text has at least 3
\* characters, has an ASCII letter or an underscore among them, and 5 times
\* the number of its characters in U+4E00..U+9FFF is at most 4 times its
\* length; a text without ASCII letter and underscore is never eligible.
C30_ShouldTranslateExact ==
    (sp.pc = "done" /\ "out" \in DOMAIN sp)
    => /\ sp.out <=> /\ Len(sp.text) >= 3
                     /\ \E i \in DOMAIN sp.text : LetterOrUnderscore(sp.text[i])
                     /\ 5 * Cardinality({i \in DOMAIN sp.text : sp.text[i] = Han})
                            <= 4 * Len(sp.text)
       /\ (\A i \in DOMAIN sp.text : ~LetterOrUnderscore(sp.text[i])) => ~sp.out

\* four characters of U+4E00..U+9FFF and an underscore: eligible
C30_Witness ==
    /\ sp.pc = "done"
    /\ sp.text = <<Han, Han, Han, Han, "_">>
    /\ sp.out = TRUE

====
